---- MODULE Spec2Model ----
(***************************************************************************)
(* Model of the DAP tool layer of debugger-mcp: the session registry       *)
(* (SessionManager), the session objects with their lifecycle state, the   *)
(* breakpoint store (BreakpointManager and the breakpoint tools), the      *)
(* watches (WatchManager and the watch tools), the execution tools, and    *)
(* the adapter events handled by setupSessionEventHandlers.                *)
(*                                                                         *)
(* JavaScript runs one callback at a time: an action is the code a tool    *)
(* or an event listener runs between two awaits.  A tool call that awaits  *)
(* the adapter is kept in `tasks` until its response is processed.  The    *)
(* adapter is an external process: its responses and events are inputs.    *)
(* The event log of a session is written by logDebugEvent alone; it is     *)
(* modelled by that operation, called at any time with any event type.     *)
(* The activity timestamps of a session are not part of the state.         *)
(***************************************************************************)
EXTENDS Integers, Sequences, FiniteSets, Bags, TLC

\* ------------------------------------------------------------------ bounds
MaxId == 3          \* breakpoint ids the manager may issue
MaxObjs == 2        \* session objects created over a run
MaxTasks == 2       \* tool calls suspended at the same time
MaxBpCalls == 1     \* breakpoint tool calls suspended at the same time
MaxLines == 2       \* length of the `lines` argument of set-breakpoints
MaxWatchId == 2     \* watch ids the manager may issue
MaxReqs == 3        \* evaluate requests one evaluate-all call may send
MaxWatchCalls == 1  \* watch tool calls suspended at the same time
MaxEvents == 3      \* events logged for one session
MaxFrames == 2      \* frames of a stack trace given to transformStackTrace
MaxMsgs == 2        \* messages framed onto one wire
MaxSeq == 3         \* requests one DAP client sends

SessionIds == {"s1"}
TwoIds == {"s1", "s2"}      \* the ids of two sessions side by side
Sources == {"a.ts", "a.js"}
Lines == {10, 20}
Conditions == {""}          \* "" stands for an absent condition
Expressions == {"x", "y"}   \* watch expressions
FrameIds == {1, 2}          \* ids of the stack frames the adapter reports
Files == {"a.js"}           \* files asked of the source-map resolver

\* ------------------------------------------------------ values of the code
Null == -1                          \* null / undefined thread id
EventThreadIds == {Null, 0, 1}   \* threadId of a stopped event
ArgThreadIds == {Null, 0, 1}        \* threadId argument of a tool call
ArgFrameIds == {Null, 1}            \* frameId argument of evaluate-watches
Undefined == "(undefined)"          \* an absent field of a watch
NoEntry == "(no entry)"             \* a key a cache Map does not hold
Seqs == 1 .. MaxSeq                 \* sequence numbers of requests
Bodies == {"b1", "b2"}              \* response bodies
\* A response message: request_seq may name no pending request.
Responses == [request_seq : 0 .. MaxSeq, success : BOOLEAN, body : Bodies]
NotCompleted == [how |-> "pending", body |-> ""]
\* A file system state for one file: the content of <file>.map ("": no such
\* file), the kind of the source file ("": absent; plain; with an inline
\* map; with a reference to a map file) and the content of the referenced
\* map file.
FileStates == [mapFile : {"", "m1"}, source : {"", "plain", "inline", "ref"},
               refFile : {"", "m2"}]
NoFile == [mapFile |-> "", source |-> "", refFile |-> ""]

CONNECTING == "connecting"
CONNECTED == "connected"
STOPPED == "stopped"
RUNNING == "running"
TERMINATED == "terminated"
ERROR == "error"
SessionState == {CONNECTING, CONNECTED, STOPPED, RUNNING, TERMINATED, ERROR}

ExecOps == {"continue", "stepOver", "stepInto", "stepOut", "pause"}
EndOps == {"terminate", "disconnect"}
StartOps == {"launch", "attach"}

VARIABLES
  sessions,             \* SessionManager.sessions: session id -> object (0: none)
  sessionInfo,          \* the SessionInfo objects: state, breakpoints map, watches
  currentThreadId,      \* DebugSession.currentThreadId of each object
  arrays,               \* the BreakpointInfo[] arrays, named by their first id
  breakpointIdCounter,  \* BreakpointManager.breakpointIdCounter
  enabled,              \* SourceMapManager.enabled
  adapter,              \* per object: the transport, the lists the adapter holds
  tasks,                \* bag of tool calls awaiting a response
  watchIdCounter,       \* WatchManager.watchIdCounter
  currentFrameId,       \* DebugSession.currentFrameId of each object
  stackIn,              \* the latest transformStackTrace call: its frames,
                        \* the library's mapping and the enabled flag
  stackOut,             \* the frames it returned
  files,                \* the file system: the source file and its map files
  cache,                \* SourceMapResolver.cache: file -> map, null or no entry
  sourceCache,          \* SourceMapResolver.sourceCache: file -> lines or no entry
  returned,             \* what hasSourceMap and getSourceContent returned last
                        \* for each file since the caches were cleared
  wire,                 \* characters written to the adapter's stdin, not read yet
  buffer,               \* debug-adapter.ts: the framer's buffer
  sent,                 \* the messages framed onto the wire, in order
  emitted,              \* the messages the framer handed to handleRequest
  seqCounter,           \* DAPClient: the sequence number given out last
  pendingRequests,      \* DAPClient: the sequence numbers awaiting a response
  completion,           \* how the caller of each request was completed
  initializedEmitted,   \* the objects whose client has emitted "initialized"
  stopTop,              \* per object: the id of the top frame of the stop the
                        \* adapter reported last
  last                  \* the latest call, return or event

vars == <<sessions, sessionInfo, currentThreadId, arrays, breakpointIdCounter,
          enabled, adapter, tasks, watchIdCounter, currentFrameId,
          stackIn, stackOut, files, cache, sourceCache, returned,
          wire, buffer, sent, emitted, seqCounter, pendingRequests,
          completion, initializedEmitted, stopTop, last>>
bpVars == <<arrays, breakpointIdCounter>>
watchVars == <<watchIdCounter, currentFrameId>>
\* The state of the source-map resolver and of the DAP client, which no
\* tool of the session layer writes.
wireVars == <<wire, buffer, sent, emitted>>
clientVars == <<seqCounter, pendingRequests, completion, initializedEmitted,
               stopTop>>
libVars == <<stackIn, stackOut, files, cache, sourceCache, returned, wireVars,
             clientVars>>

Objs == 1 .. MaxObjs
Ids == 1 .. MaxId

\* A SessionInfo object that was not created yet.
NoInfo == [state |-> "none", breakpoints |-> [s \in Sources |-> 0],
           watches |-> <<>>, events |-> <<>>]
NoAdapter == [transport |-> "none", lastSent |-> [s \in Sources |-> <<>>]]

nObjs == Cardinality({o \in Objs : sessionInfo[o].state # "none"})

Truthy(t) == t # Null /\ t # 0

\* ---------------------------------------------------------- observations
\* `last` names the step taken last: a tool call that suspended ("pending"),
\* the outcome a tool call returned or threw, or the event a listener got.
Label(kind, op, sid, obj, outcome) == outcome
Call(op, sid, obj) == Label("call", op, sid, obj, "pending")
Ret(op, sid, obj, outcome) == Label("return", op, sid, obj, outcome)

\* ------------------------------------------------------------------ tasks
Task(op, sid, obj, pc) ==
  [op |-> op, sid |-> sid, obj |-> obj, pc |-> pc, stop |-> FALSE,
   src |-> "", arr |-> 0, n |-> 0, rem |-> <<>>,
   w |-> 0, live |-> FALSE, expr |-> "", frame |-> Null, reqs |-> <<>>]
Room == BagCardinality(tasks) < MaxTasks
BpOps == {"setBreakpoints", "setBreakpoint", "removeBreakpoint",
          "clearBreakpoints", "setBreakpointSourceMapped"}
\* A breakpoint tool is called while fewer than MaxBpCalls calls are suspended.
BpRoom == BagCardinality(tasks) < MaxBpCalls
Add(t) == tasks (+) SetToBag({t})
Del(t) == tasks (-) SetToBag({t})
Pending == BagToSet(tasks)

\* The adapter answers success only over an open transport; the requests
\* pending when the transport closes fail.
CanSucceed(o) == adapter[o].transport = "open"
Answers(t) ==
  IF t.pc = "unanswered" THEN (IF CanSucceed(t.obj) THEN {} ELSE {FALSE})
  ELSE IF CanSucceed(t.obj) THEN BOOLEAN ELSE {FALSE}

\* ------------------------------------------------------- SessionManager
validateAndGetNoStateCheck(sid, requiredStates) ==
  IF sessions[sid] = 0 THEN "NotFound" ELSE "ok"

validateAndGet(sid, requiredStates) ==
  IF sessions[sid] = 0 THEN "NotFound"
  ELSE IF sessionInfo[sessions[sid]].state \notin requiredStates
       THEN "StateError" ELSE "ok"

ensureNotExistsRejectsAll(sid) == sessions[sid] # 0

\* TRUE when ensureNotExists throws; otherwise the entry of sid is deleted.
ensureNotExists(sid) ==
  /\ sessions[sid] # 0
  /\ sessionInfo[sessions[sid]].state \notin {TERMINATED, ERROR}

\* updateState looks the session up by id in the registry.
updateState(si, reg, sid, st) ==
  IF reg[sid] = 0 THEN si ELSE [si EXCEPT ![reg[sid]].state = st]

Init ==
  /\ sessions = [s \in TwoIds |-> 0]
  /\ sessionInfo = [o \in Objs |-> NoInfo]
  /\ currentThreadId = [o \in Objs |-> Null]
  /\ arrays = [i \in Ids |-> <<>>]
  /\ breakpointIdCounter = 0
  /\ enabled = TRUE
  /\ adapter = [o \in Objs |-> NoAdapter]
  /\ tasks = EmptyBag
  /\ watchIdCounter = 0
  /\ currentFrameId = [o \in Objs |-> Null]
  /\ stackIn = [frames |-> <<>>, raw |-> 0, enabled |-> TRUE]
  /\ stackOut = <<>>
  /\ files = [f \in Files |-> NoFile]
  /\ cache = [f \in Files |-> NoEntry]
  /\ sourceCache = [f \in Files |-> NoEntry]
  /\ returned = [f \in Files |-> [has |-> NoEntry, content |-> NoEntry]]
  /\ wire = <<>>
  /\ buffer = <<>>
  /\ sent = <<>>
  /\ emitted = <<>>
  /\ seqCounter = 0
  /\ pendingRequests = {}
  /\ completion = [n \in Seqs |-> NotCompleted]
  /\ initializedEmitted = {}
  /\ stopTop = [o \in Objs |-> Null]
  /\ last = Label("init", "", "", 0, "")

\* ------------------------------------------------------ launch / attach
\* sessionTools.ts launchDebugSessionTool / attachDebugSessionTool, up to the
\* first await (session.connect()).
Launch(op, sid, stop) ==
  \/ /\ ensureNotExists(sid)
     /\ last' = Ret(op, sid, sessions[sid], "AlreadyExists")
     /\ UNCHANGED <<sessions, sessionInfo, currentThreadId, bpVars, enabled,
                    adapter, tasks, watchVars, libVars>>
  \/ /\ ~ensureNotExists(sid)
     /\ nObjs < MaxObjs
     /\ Room
     /\ LET o == nObjs + 1 IN
        /\ sessions' = [sessions EXCEPT ![sid] = o]
        /\ sessionInfo' = [sessionInfo EXCEPT ![o] =
               [state |-> CONNECTING, breakpoints |-> [s \in Sources |-> 0],
                watches |-> <<>>, events |-> <<>>]]
        /\ adapter' = [adapter EXCEPT ![o].transport = "open"]
        /\ tasks' = Add([Task(op, sid, o, "connect") EXCEPT !.stop = stop])
        /\ last' = Call(op, sid, o)
     /\ UNCHANGED <<currentThreadId, bpVars, enabled, watchVars, libVars>>

\* The catch block of launch/attach: state ERROR on the object the call
\* created, then delete(sessionId) in the registry.
LaunchFailed(t) ==
  /\ sessionInfo' = [sessionInfo EXCEPT ![t.obj].state = ERROR]
  /\ sessions' = [sessions EXCEPT ![t.sid] = 0]
  /\ tasks' = Del(t)
  /\ last' = Ret(t.op, t.sid, t.obj, "RequestError")
  /\ UNCHANGED <<currentThreadId, bpVars, enabled, adapter, watchVars, libVars>>

\* session.connect() resolved: state CONNECTED, then session.launch/attach
\* sends configurationDone.
ConnectDone ==
  \E t \in Pending : \E ok \in Answers(t) :
    /\ t.op \in StartOps /\ t.pc = "connect"
    /\ \/ /\ ok
          /\ sessionInfo' = [sessionInfo EXCEPT ![t.obj].state = CONNECTED]
          /\ tasks' = Add([t EXCEPT !.pc = "configurationDone"]) (-) SetToBag({t})
          /\ last' = Call(t.op, t.sid, t.obj)
          /\ UNCHANGED <<sessions, currentThreadId, bpVars, enabled, adapter, watchVars, libVars>>
       \/ /\ ~ok
          /\ LaunchFailed(t)

\* configurationDone answered: the launch (attach) request is sent.
ConfigurationDone ==
  \E t \in Pending : \E ok \in Answers(t) :
    /\ t.op \in StartOps /\ t.pc = "configurationDone"
    /\ \/ /\ ok
          /\ tasks' = Add([t EXCEPT !.pc = "request"]) (-) SetToBag({t})
          /\ last' = Call(t.op, t.sid, t.obj)
          /\ UNCHANGED <<sessions, sessionInfo, currentThreadId, bpVars,
                         enabled, adapter, watchVars, libVars>>
       \/ /\ ~ok
          /\ LaunchFailed(t)

\* launch (attach) answered: RUNNING unless stopOnEntry was asked for.
LaunchDoneOf(t, ok) ==
    /\ t.op \in StartOps /\ t.pc = "request"
    /\ \/ /\ ok
          /\ sessionInfo' = IF t.op = "launch" /\ t.stop THEN sessionInfo
                            ELSE [sessionInfo EXCEPT ![t.obj].state = RUNNING]
          /\ tasks' = Del(t)
          /\ last' = Ret(t.op, t.sid, t.obj, "ok")
          /\ UNCHANGED <<sessions, currentThreadId, bpVars, enabled, adapter, watchVars, libVars>>
       \/ /\ ~ok
          /\ LaunchFailed(t)

LaunchDone == \E t \in Pending : \E ok \in Answers(t) : LaunchDoneOf(t, ok)

\* ------------------------------------------------------ execution tools
\* The state an execution tool requires (executionTools.ts).
Required(op) == IF op = "pause" THEN {RUNNING} ELSE {STOPPED}

\* DebugSession.continue/stepOver/stepIn/stepOut/pause: the thread the
\* request names, `threadId || this.currentThreadId`.
ThreadOfDefaultsToFirst(o, tid) == IF Truthy(tid) THEN tid ELSE 1
ThreadOf(o, tid) == IF Truthy(tid) THEN tid ELSE currentThreadId[o]

\* continueTool, stepOverTool, stepIntoTool, stepOutTool, pauseTool up to the
\* await of the request.
Exec(op, sid, tid) ==
  LET v == validateAndGet(sid, Required(op))
      o == sessions[sid] IN
  /\ \/ /\ v # "ok"
        /\ last' = Ret(op, sid, o, v)
        /\ UNCHANGED tasks
     \/ /\ v = "ok"
        /\ ~Truthy(ThreadOf(o, tid))
        /\ last' = Ret(op, sid, o, "NoActiveThread")
        /\ UNCHANGED tasks
     \/ /\ v = "ok"
        /\ Truthy(ThreadOf(o, tid))
        /\ Room
        /\ last' = Call(op, sid, o)
        /\ tasks' = Add(Task(op, sid, o, "request"))
  /\ UNCHANGED <<sessions, sessionInfo, currentThreadId, bpVars, enabled, adapter, watchVars, libVars>>

\* The state an execution tool writes once its request is answered.
ExecResult(op, si, reg, sid) ==
  IF op = "continue" THEN updateState(si, reg, sid, RUNNING)
  ELSE IF op = "pause" THEN updateState(si, reg, sid, STOPPED)
  ELSE si

ExecDoneOf(t, ok) ==
    /\ t.op \in ExecOps
    /\ tasks' = Del(t)
    /\ UNCHANGED <<sessions, currentThreadId, bpVars, enabled, adapter, watchVars, libVars>>
    /\ \/ /\ ok
          /\ sessionInfo' = ExecResult(t.op, sessionInfo, sessions, t.sid)
          /\ last' = Ret(t.op, t.sid, t.obj, "ok")
       \/ /\ ~ok
          /\ last' = Ret(t.op, t.sid, t.obj, "RequestError")
          /\ UNCHANGED sessionInfo

ExecDone == \E t \in Pending : \E ok \in Answers(t) : ExecDoneOf(t, ok)

\* ------------------------------------------------- terminate / disconnect
\* terminateDebugSessionTool, disconnectDebugSessionTool up to the await.
End(op, sid) ==
  LET v == validateAndGet(sid, SessionState)
      o == sessions[sid] IN
  /\ UNCHANGED <<sessions, sessionInfo, currentThreadId, bpVars, enabled, adapter, watchVars, libVars>>
  /\ \/ /\ v # "ok"
        /\ last' = Ret(op, sid, o, v)
        /\ UNCHANGED tasks
     \/ /\ v = "ok"
        /\ Room
        /\ tasks' = Add(Task(op, sid, o, "request"))
        /\ last' = Call(op, sid, o)

\* The request answered: TERMINATED and removed from the registry, or ERROR.
\* DebugSession.disconnect closes the client after the response.
EndDoneOf(t, ok) ==
    /\ t.op \in EndOps
    /\ tasks' = Del(t)
    /\ UNCHANGED <<currentThreadId, bpVars, enabled, watchVars, libVars>>
    /\ \/ /\ ok
          /\ sessionInfo' = updateState(sessionInfo, sessions, t.sid, TERMINATED)
          /\ sessions' = [sessions EXCEPT ![t.sid] = 0]
          /\ adapter' = IF t.op = "disconnect"
                        THEN [adapter EXCEPT ![t.obj].transport = "closed"]
                        ELSE adapter
          /\ last' = Ret(t.op, t.sid, t.obj, "ok")
       \/ /\ ~ok
          /\ sessionInfo' = updateState(sessionInfo, sessions, t.sid, ERROR)
          /\ last' = Ret(t.op, t.sid, t.obj, "RequestError")
          /\ UNCHANGED <<sessions, adapter, watchVars, libVars>>

EndDone == \E t \in Pending : \E ok \in Answers(t) : EndDoneOf(t, ok)

\* getSessionInfoTool.execute: sessionManager.get(sessionId); an unknown id
\* is answered by returning the text "Session <id> not found".
GetSessionInfo(sid) ==
  /\ last' = Ret("getSessionInfo", sid, sessions[sid],
                 IF sessions[sid] = 0 THEN "notFoundMessage" ELSE "ok")
  /\ UNCHANGED <<sessions, sessionInfo, currentThreadId, bpVars, enabled,
                 adapter, tasks, watchVars, libVars>>

\* The adapter never answers a request of an execution tool, of terminate or
\* of disconnect: the call stays suspended until the transport closes.
NeverAnswered ==
  \E t \in Pending :
    /\ t.op \in ExecOps \cup EndOps /\ t.pc = "request"
    /\ tasks' = Del(t) (+) SetToBag({[t EXCEPT !.pc = "unanswered"]})
    /\ last' = Label("adapter", t.op, t.sid, t.obj, "unanswered")
    /\ UNCHANGED <<sessions, sessionInfo, currentThreadId, bpVars, enabled, adapter, watchVars, libVars>>

\* ---------------------------------------------------------------- events
\* The events an adapter may send to the listeners of object o.
Alive(o) == adapter[o].transport = "open"
Event(name, o) == Label("event", name, "", o, name)
HitSets == {{}} \cup {{i} : i \in 1 .. breakpointIdCounter}

\* The listener of the DebugSession constructor: `if (event.threadId)`.
stoppedListener(cur, tid) == IF Truthy(tid) THEN tid ELSE cur

\* The state the listeners of setupSessionEventHandlers write.
onStopped(st) == STOPPED
onContinued(st) == RUNNING
onTerminated(st) == TERMINATED
\* No listener is registered for "exited".
onExited(st) == st

StoppedEvent(o, tid, hits) ==
  /\ Alive(o)
  /\ currentThreadId' = [currentThreadId EXCEPT ![o] = stoppedListener(@, tid)]
  /\ sessionInfo' = [sessionInfo EXCEPT ![o].state = onStopped(@)]
  /\ last' = Event("event stopped", o)
  /\ UNCHANGED <<sessions, bpVars, enabled, adapter, tasks, watchVars, libVars>>

ContinuedEvent(o) ==
  /\ Alive(o)
  /\ sessionInfo' = [sessionInfo EXCEPT ![o].state = onContinued(@)]
  /\ last' = Event("event continued", o)
  /\ UNCHANGED <<sessions, currentThreadId, bpVars, enabled, adapter, tasks, watchVars, libVars>>

TerminatedEvent(o) ==
  /\ Alive(o)
  /\ sessionInfo' = [sessionInfo EXCEPT ![o].state = onTerminated(@)]
  /\ last' = Event("event terminated", o)
  /\ UNCHANGED <<sessions, currentThreadId, bpVars, enabled, adapter, tasks, watchVars, libVars>>

ExitedEvent(o) ==
  /\ Alive(o)
  /\ sessionInfo' = [sessionInfo EXCEPT ![o].state = onExited(@)]
  /\ last' = Event("event exited", o)
  /\ UNCHANGED <<sessions, currentThreadId, bpVars, enabled, adapter, tasks, watchVars, libVars>>

\* The adapter process exits, or its pipe closes, without a terminated
\* event.  setupSessionEventHandlers registers listeners for stopped,
\* continued, terminated and output only, so the recorded state stays.
onTransportClosed(st) == st
AdapterExit(o) ==
  /\ Alive(o)
  /\ adapter' = [adapter EXCEPT ![o].transport = "exited"]
  /\ sessionInfo' = [sessionInfo EXCEPT ![o].state = onTransportClosed(@)]
  /\ last' = Event("adapter exit", o)
  /\ UNCHANGED <<sessions, currentThreadId, bpVars, enabled, tasks, watchVars,
                 libVars>>

\* The output listener only logs.
OutputEvent(o) ==
  /\ Alive(o)
  /\ last' = Event("event output", o)
  /\ UNCHANGED <<sessions, sessionInfo, currentThreadId, bpVars, enabled,
                 adapter, tasks, watchVars, libVars>>

\* --------------------------------------------------- DebugSession.connect
\* DebugSession.connect step by step (debugSession.ts 82-115), in place of
\* ConnectDone.  The initialize request is answered: the promise of
\* client.initialize is resolved, connect() resumes in a later microtask.
InitializeResponse ==
  \E t \in Pending : \E ok \in Answers(t) :
    /\ t.op \in StartOps /\ t.pc = "connect"
    /\ \/ /\ ok
          /\ tasks' = Add([t EXCEPT !.pc = "initializeAnswered"]) (-) SetToBag({t})
          /\ last' = Label("event", "response", t.sid, t.obj, "initialize answered")
          /\ UNCHANGED <<sessions, sessionInfo, currentThreadId, bpVars,
                         enabled, adapter, watchVars, libVars>>
       \/ /\ ~ok
          /\ LaunchFailed(t)

\* connect() resumes after `await this.client.initialize(initArgs)` and
\* registers its listener: this.client.once("initialized", ...).
ConnectResume ==
  \E t \in Pending :
    /\ t.op \in StartOps /\ t.pc = "initializeAnswered"
    /\ tasks' = Add([t EXCEPT !.pc = "awaitInitialized"]) (-) SetToBag({t})
    /\ last' = Call(t.op, t.sid, t.obj)
    /\ UNCHANGED <<sessions, sessionInfo, currentThreadId, bpVars, enabled,
                   adapter, watchVars, libVars>>

\* The tasks whose once("initialized") listener is registered.
Listening(o) == {t \in Pending : t.obj = o /\ t.pc = "awaitInitialized"}

\* The adapter sends its initialized event, once, after it answered the
\* initialize request (debug-adapter.ts 82-112); the client emits it.  A
\* registered listener resolves connect(): state CONNECTED, then
\* configurationDone is sent.  Without a listener the event is dropped.
InitializedEvent(o) ==
  /\ Alive(o)
  /\ o \notin initializedEmitted
  /\ \E t \in Pending : t.obj = o /\ t.pc \in {"initializeAnswered", "awaitInitialized"}
  /\ initializedEmitted' = initializedEmitted \cup {o}
  /\ IF Listening(o) # {}
     THEN LET t == CHOOSE t \in Listening(o) : TRUE IN
          /\ sessionInfo' = [sessionInfo EXCEPT ![o].state = CONNECTED]
          /\ tasks' = Add([t EXCEPT !.pc = "configurationDone"]) (-) SetToBag({t})
          /\ last' = Call(t.op, t.sid, o)
     ELSE /\ UNCHANGED <<sessionInfo, tasks>>
          /\ last' = Label("event", "initialized", "", o, "no listener")
  /\ UNCHANGED <<sessions, currentThreadId, bpVars, enabled, adapter, watchVars,
                 stackIn, stackOut, files, cache, sourceCache, returned,
                 wireVars, seqCounter, pendingRequests, completion, stopTop>>

\* ------------------------------------------ the refresh after a stop
\* The stopped listeners with what follows them (sessionTools.ts 353-380):
\* the state and the current thread are written at once; when the event
\* names a thread the listener then asks for the stack trace, whose response
\* moves the frame cursor.  `top` is the id of the top frame of this stop.
StoppedThenRefresh(o, tid, top) ==
  /\ Alive(o)
  /\ Truthy(tid) => Room
  /\ currentThreadId' = [currentThreadId EXCEPT ![o] = stoppedListener(@, tid)]
  /\ sessionInfo' = [sessionInfo EXCEPT ![o].state = onStopped(@)]
  /\ stopTop' = [stopTop EXCEPT ![o] = top]
  /\ tasks' = IF Truthy(tid) THEN Add(Task("stoppedListener", "", o, "request"))
              ELSE tasks
  /\ last' = Event("event stopped", o)
  /\ UNCHANGED <<sessions, bpVars, enabled, adapter, watchVars, stackIn,
                 stackOut, files, cache, sourceCache, returned, wireVars,
                 seqCounter, pendingRequests, completion, initializedEmitted>>

\* DebugSession.getStackTrace of the listener after its await: the top frame
\* of the response becomes the frame cursor; a failure is caught and logged.
\* (The scopes and variables the listener reads next change no state of the
\* session.)
RefreshDoneOf(t, ok) ==
  /\ t.op = "stoppedListener"
  /\ tasks' = Del(t)
  /\ currentFrameId' = [currentFrameId EXCEPT ![t.obj] =
                          IF ok /\ stopTop[t.obj] # Null THEN stopTop[t.obj] ELSE @]
  /\ last' = Label("event", "stackTrace", "", t.obj, IF ok THEN "tracked" ELSE "logged")
  /\ UNCHANGED <<sessions, sessionInfo, currentThreadId, bpVars, enabled,
                 adapter, watchIdCounter, libVars>>

RefreshDone == \E t \in Pending : \E ok \in Answers(t) : RefreshDoneOf(t, ok)

\* ------------------------------------------------------ breakpoint store
BpStates == {CONNECTED, STOPPED, RUNNING}
LineSeqs == UNION {[1 .. n -> Lines] : n \in 0 .. MaxLines}
CondArgs == {<<>>}       \* the optional `conditions` argument
LineArgs == Lines \cup {Null}       \* the optional `line` argument

\* BreakpointManager.generateId: ++this.breakpointIdCounter.
generateIdReuse(counter) == IF counter = 0 THEN 1 ELSE counter
generateId(counter) == counter + 1

\* The counter after i calls of generateId.
RECURSIVE NthId(_, _)
NthId(counter, i) == IF i = 0 THEN counter ELSE generateId(NthId(counter, i - 1))

\* BreakpointManager.createBreakpoint, with the id it was given.
createBreakpoint(id, source, line, condition) ==
  [id |-> id, source |-> source, line |-> line, condition |-> condition,
   hitCount |-> 0, verified |-> FALSE]

\* The array stored for a source ("get(source) || []").
StoreList(o, src) ==
  IF sessionInfo[o].breakpoints[src] = 0 THEN <<>>
  ELSE arrays[sessionInfo[o].breakpoints[src]]

\* What DebugSession.setBreakpoints puts on the wire for a list.
Wire(list) == [i \in 1 .. Len(list) |->
                 [line |-> list[i].line, condition |-> list[i].condition]]

\* The keys of a breakpoints map in insertion order: an entry is inserted
\* together with its array, and arrays are named by increasing ids.
RECURSIVE SortedRefs(_)
SortedRefs(S) ==
  IF S = {} THEN <<>>
  ELSE LET m == CHOOSE x \in S : \A y \in S : x <= y
       IN <<m>> \o SortedRefs(S \ {m})
Keys(bps) ==
  LET refs == SortedRefs({bps[s] : s \in {x \in Sources : bps[x] # 0}})
  IN [i \in 1 .. Len(refs) |-> CHOOSE s \in Sources : bps[s] = refs[i]]

Without(seq, x) == SelectSeq(seq, LAMBDA y : y # x)

\* The Map iterators of suspended clear-all calls see deletions and
\* insertions of keys made while they wait.
IsIter(t, o) == t.op = "clearBreakpoints" /\ t.pc = "iter" /\ t.obj = o
IterSees(t, o, how, src) ==
  IF ~IsIter(t, o) THEN t
  ELSE [t EXCEPT !.rem = IF how = "delete" THEN Without(@, src)
                         ELSE IF how = "set" THEN Append(@, src)
                         ELSE <<>>]
MapIters(B, o, how, src) ==
  LET S == BagToSet(B)
      T == {IterSees(y, o, how, src) : y \in S}
  IN [x \in T |->
        BagCardinality([y \in {z \in S : IterSees(z, o, how, src) = x} |-> B[y]])]
KeyDeleted(B, o, src) == MapIters(B, o, "delete", src)
KeyInserted(B, o, src) == MapIters(B, o, "set", src)
MapCleared(B, o) == MapIters(B, o, "clear", "")

\* Arrays that neither a breakpoints map nor a suspended call refers to are
\* unreachable.
Collect(arrs, si, tsks) ==
  [a \in Ids |->
     IF \/ \E o \in Objs, s \in Sources : si[o].breakpoints[s] = a
        \/ \E t \in BagToSet(tsks) : t.arr = a
     THEN arrs[a] ELSE <<>>]

\* The adapter keeps the list of the latest setBreakpoints request.
Sent(o, src, list) == [adapter EXCEPT ![o].lastSent[src] = Wire(list)]

\* setBreakpointsTool.execute up to the await (breakpointTools.ts 20-46).
SetBreakpointsKeepOld(old, new) == old \o new
SetBreakpointsList(old, new) == new

SetBreakpoints(sid, src, lines, conds) ==
  LET v == validateAndGet(sid, BpStates)
      o == sessions[sid]
      a == NthId(breakpointIdCounter, 1)
      fresh == [i \in 1 .. Len(lines) |->
                  createBreakpoint(NthId(breakpointIdCounter, i), src, lines[i],
                                   IF i <= Len(conds) THEN conds[i] ELSE "")]
      list == SetBreakpointsList(StoreList(o, src), fresh)
      gone == [sessionInfo EXCEPT ![o].breakpoints[src] = 0]
      set == [sessionInfo EXCEPT ![o].breakpoints[src] = a]
      t == [Task("setBreakpoints", sid, o, "request")
              EXCEPT !.src = src, !.arr = a, !.n = Len(list)]
  IN
  /\ UNCHANGED <<sessions, currentThreadId, enabled, watchVars, libVars>>
  /\ \/ /\ v # "ok"
        /\ last' = Ret("setBreakpoints", sid, o, v)
        /\ UNCHANGED <<sessionInfo, bpVars, adapter, tasks, watchVars, libVars>>
     \/ /\ v = "ok" /\ lines = <<>>
        \* get(source)! is undefined: the call throws before any request
        /\ sessionInfo' = gone
        /\ tasks' = KeyDeleted(tasks, o, src)
        /\ arrays' = Collect(arrays, gone, tasks')
        /\ last' = Ret("setBreakpoints", sid, o, "TypeError")
        /\ UNCHANGED <<breakpointIdCounter, adapter, watchVars, libVars>>
     \/ /\ v = "ok" /\ lines # <<>>
        /\ breakpointIdCounter + Len(lines) <= MaxId
        /\ BpRoom
        /\ sessionInfo' = set
        /\ breakpointIdCounter' = NthId(breakpointIdCounter, Len(lines))
        /\ tasks' = KeyInserted(KeyDeleted(tasks, o, src), o, src) (+) SetToBag({t})
        /\ arrays' = Collect([arrays EXCEPT ![a] = list], set, tasks')
        /\ adapter' = Sent(o, src, list)
        /\ last' = Call("setBreakpoints", sid, o)

\* setBreakpointTool.execute up to the await (breakpointTools.ts 86-112).
SetBreakpoint(sid, src, line, cond) ==
  LET v == validateAndGet(sid, BpStates)
      o == sessions[sid]
      id == generateId(breakpointIdCounter)
      bp == createBreakpoint(id, src, line, cond)
      ref == sessionInfo[o].breakpoints[src]
      a == IF ref = 0 THEN id ELSE ref
      list == Append(StoreList(o, src), bp)
      set == [sessionInfo EXCEPT ![o].breakpoints[src] = a]
      t == [Task("setBreakpoint", sid, o, "request")
              EXCEPT !.src = src, !.arr = a, !.n = Len(list)]
  IN
  /\ UNCHANGED <<sessions, currentThreadId, enabled, watchVars, libVars>>
  /\ \/ /\ v # "ok"
        /\ last' = Ret("setBreakpoint", sid, o, v)
        /\ UNCHANGED <<sessionInfo, bpVars, adapter, tasks, watchVars, libVars>>
     \/ /\ v = "ok"
        /\ breakpointIdCounter < MaxId
        /\ BpRoom
        /\ sessionInfo' = set
        /\ breakpointIdCounter' = id
        /\ tasks' = (IF ref = 0 THEN KeyInserted(tasks, o, src) ELSE tasks)
                      (+) SetToBag({t})
        /\ arrays' = Collect([arrays EXCEPT ![a] = list], set, tasks')
        /\ adapter' = Sent(o, src, list)
        /\ last' = Call("setBreakpoint", sid, o)

\* BreakpointManager.verifyBreakpoint: breakpoint.verified = true.
verifyBreakpoint(bp, verified) ==
  IF verified THEN [bp EXCEPT !.verified = TRUE] ELSE bp

\* The verification loop of both tools: for each index of the response, in
\* order, mark sourceBreakpoints[i] when the adapter verified it.  The loop
\* throws at the first verified index the array no longer has.
FirstMissing(arr, resp) ==
  LET bad == {i \in 1 .. Len(resp) : resp[i] /\ i > Len(arr)}
  IN IF bad = {} THEN Len(resp) + 1 ELSE CHOOSE i \in bad : \A j \in bad : i <= j
Fold(arr, resp) ==
  [i \in 1 .. Len(arr) |->
     IF i < FirstMissing(arr, resp) /\ i <= Len(resp)
     THEN verifyBreakpoint(arr[i], resp[i]) ELSE arr[i]]

\* The setBreakpoints response of set-breakpoints / set-breakpoint: `resp`
\* is the verified flag of each breakpoint of the response, in order.
SetDoneOf(t, ok, resp) ==
    /\ t.op \in {"setBreakpoints", "setBreakpoint"}
    /\ tasks' = Del(t)
    /\ UNCHANGED <<sessions, sessionInfo, currentThreadId, breakpointIdCounter,
                   enabled, adapter, watchVars, libVars>>
    /\ \/ /\ ok
          /\ arrays' = Collect([arrays EXCEPT ![t.arr] = Fold(@, resp)],
                               sessionInfo, tasks')
          /\ last' = Ret(t.op, t.sid, t.obj,
                         IF FirstMissing(arrays[t.arr], resp) <= Len(resp)
                         THEN "TypeError" ELSE "ok")
       \/ /\ ~ok
          /\ resp = [i \in 1 .. t.n |-> FALSE]
          /\ arrays' = Collect(arrays, sessionInfo, tasks')
          /\ last' = Ret(t.op, t.sid, t.obj, "RequestError")

SetDone ==
  \E t \in Pending : \E ok \in Answers(t) : \E resp \in [1 .. t.n -> BOOLEAN] :
    SetDoneOf(t, ok, resp)

\* BreakpointManager.removeBreakpointFromSession on an array: the index of
\* the first breakpoint at `line` (0: none), and the array without it.
FindIndex(arr, line) ==
  LET hit == {i \in 1 .. Len(arr) : arr[i].line = line}
  IN IF hit = {} THEN 0 ELSE CHOOSE i \in hit : \A j \in hit : i <= j
Splice(arr, k) == [i \in 1 .. Len(arr) - 1 |-> IF i < k THEN arr[i] ELSE arr[i + 1]]

\* removeBreakpointTool.execute up to the await (breakpointTools.ts 150-176).
RemoveBreakpoint(sid, src, line) ==
  LET v == validateAndGet(sid, BpStates)
      o == sessions[sid]
      ref == sessionInfo[o].breakpoints[src]
      arr == StoreList(o, src)
      k == FindIndex(arr, line)
      rest == IF line = Null THEN <<>> ELSE Splice(arr, k)
      gone == [sessionInfo EXCEPT ![o].breakpoints[src] = 0]
      t == [Task("removeBreakpoint", sid, o, "request") EXCEPT !.src = src]
  IN
  /\ UNCHANGED <<sessions, currentThreadId, breakpointIdCounter, enabled, watchVars, libVars>>
  /\ \/ /\ v # "ok"
        /\ last' = Ret("removeBreakpoint", sid, o, v)
        /\ UNCHANGED <<sessionInfo, arrays, adapter, tasks, watchVars, libVars>>
     \/ /\ v = "ok"
        /\ ref = 0 \/ (line # Null /\ k = 0)
        \* nothing removed: the tool returns without a request
        /\ last' = Ret("removeBreakpoint", sid, o, "nothing")
        /\ UNCHANGED <<sessionInfo, arrays, adapter, tasks, watchVars, libVars>>
     \/ /\ v = "ok"
        /\ ref # 0 /\ (line = Null \/ k # 0)
        /\ BpRoom
        /\ sessionInfo' = IF rest = <<>> THEN gone ELSE sessionInfo
        /\ tasks' = (IF rest = <<>> THEN KeyDeleted(tasks, o, src) ELSE tasks)
                      (+) SetToBag({t})
        \* splice works on the array in place; `line` omitted leaves it as is
        /\ arrays' = Collect(IF line = Null THEN arrays
                             ELSE [arrays EXCEPT ![ref] = rest],
                             sessionInfo', tasks')
        /\ adapter' = Sent(o, src, rest)
        /\ last' = Call("removeBreakpoint", sid, o)

\* clearBreakpointsTool.execute up to its first await (breakpointTools.ts
\* 238-265).  src = "" is the call without a source.
ClearBreakpoints(sid, src) ==
  LET v == validateAndGet(sid, BpStates)
      o == sessions[sid]
      keys == Keys(sessionInfo[o].breakpoints)
      gone == [sessionInfo EXCEPT ![o].breakpoints[src] = 0]
      one == [Task("clearBreakpoints", sid, o, "request") EXCEPT !.src = src]
      all == [Task("clearBreakpoints", sid, o, "iter")
                EXCEPT !.src = Head(keys), !.rem = Tail(keys)]
  IN
  /\ UNCHANGED <<sessions, currentThreadId, breakpointIdCounter, enabled, watchVars, libVars>>
  /\ \/ /\ v # "ok"
        /\ last' = Ret("clearBreakpoints", sid, o, v)
        /\ UNCHANGED <<sessionInfo, arrays, adapter, tasks, watchVars, libVars>>
     \/ /\ v = "ok" /\ src # "" /\ sessionInfo[o].breakpoints[src] = 0
        /\ last' = Ret("clearBreakpoints", sid, o, "nothing")
        /\ UNCHANGED <<sessionInfo, arrays, adapter, tasks, watchVars, libVars>>
     \/ /\ v = "ok" /\ src # "" /\ sessionInfo[o].breakpoints[src] # 0
        /\ BpRoom
        /\ sessionInfo' = gone
        /\ tasks' = KeyDeleted(tasks, o, src) (+) SetToBag({one})
        /\ arrays' = Collect(arrays, gone, tasks')
        /\ adapter' = Sent(o, src, <<>>)
        /\ last' = Call("clearBreakpoints", sid, o)
     \/ /\ v = "ok" /\ src = "" /\ keys = <<>>
        \* an empty map: clear() and return
        /\ tasks' = MapCleared(tasks, o)
        /\ last' = Ret("clearBreakpoints", sid, o, "ok")
        /\ UNCHANGED <<sessionInfo, arrays, adapter, watchVars, libVars>>
     \/ /\ v = "ok" /\ src = "" /\ keys # <<>>
        /\ BpRoom
        /\ tasks' = tasks (+) SetToBag({all})
        /\ adapter' = Sent(o, Head(keys), <<>>)
        /\ last' = Call("clearBreakpoints", sid, o)
        /\ UNCHANGED <<sessionInfo, arrays, watchVars, libVars>>

\* A response to the loop of clear-all: the next source of the iteration is
\* sent, or, past the last one, breakpoints.clear().
ClearAllDone ==
  \E t \in Pending : \E ok \in Answers(t) :
    /\ t.op = "clearBreakpoints" /\ t.pc = "iter"
    /\ UNCHANGED <<sessions, currentThreadId, breakpointIdCounter, enabled, watchVars, libVars>>
    /\ \/ /\ ok /\ t.rem # <<>>
          /\ tasks' = Del(t) (+) SetToBag({[t EXCEPT !.src = Head(t.rem),
                                                      !.rem = Tail(t.rem)]})
          /\ adapter' = Sent(t.obj, Head(t.rem), <<>>)
          /\ last' = Call(t.op, t.sid, t.obj)
          /\ UNCHANGED <<sessionInfo, arrays, watchVars, libVars>>
       \/ /\ ok /\ t.rem = <<>>
          /\ sessionInfo' = [sessionInfo EXCEPT
                               ![t.obj].breakpoints = [s \in Sources |-> 0]]
          /\ tasks' = MapCleared(Del(t), t.obj)
          /\ arrays' = Collect(arrays, sessionInfo', tasks')
          /\ last' = Ret(t.op, t.sid, t.obj, "ok")
          /\ UNCHANGED adapter
       \/ /\ ~ok
          /\ tasks' = Del(t)
          /\ last' = Ret(t.op, t.sid, t.obj, "RequestError")
          /\ UNCHANGED <<sessionInfo, arrays, adapter, watchVars, libVars>>

\* SourceMapManager.resolveDebugPath; `exists` is fs.existsSync(jsPath).
EndsWithTs(path) == path = "a.ts"
JsPath(path) == IF path = "a.ts" THEN "a.js" ELSE path
resolveDebugPath(path, exists) ==
  IF ~enabled THEN path
  ELSE IF EndsWithTs(path) /\ exists THEN JsPath(path) ELSE path

\* SourceMapManager.mapSourceBreakpoint: the line in the generated file
\* (Null: no mapping).
mapSourceBreakpoint(path, line) ==
  IF ~enabled THEN Null
  ELSE IF JsPath(path) = path THEN Null ELSE line

\* setBreakpointWithSourceMapTool.execute up to the await
\* (sourceMapTools.ts 207-231): one breakpoint is sent for the debug path.
SetBreakpointSourceMapped(sid, src, line, cond, exists) ==
  LET v == validateAndGet(sid, BpStates)
      o == sessions[sid]
      debugPath == resolveDebugPath(src, exists)
      mapped == mapSourceBreakpoint(src, line)
      targetLine == IF debugPath # src /\ mapped # Null THEN mapped ELSE line
      t == [Task("setBreakpointSourceMapped", sid, o, "request")
              EXCEPT !.src = debugPath]
  IN
  /\ UNCHANGED <<sessions, sessionInfo, currentThreadId, bpVars, enabled, watchVars, libVars>>
  /\ \/ /\ v # "ok"
        /\ last' = Ret("setBreakpointSourceMapped", sid, o, v)
        /\ UNCHANGED <<adapter, tasks, watchVars, libVars>>
     \/ /\ v = "ok"
        /\ BpRoom
        /\ tasks' = tasks (+) SetToBag({t})
        /\ adapter' = Sent(o, debugPath, <<[line |-> targetLine, condition |-> cond]>>)
        /\ last' = Call("setBreakpointSourceMapped", sid, o)

\* The response of remove-breakpoint, clear-breakpoints with a source and
\* the source-mapped set-breakpoint: nothing of the store is written.
PlainDone ==
  \E t \in Pending : \E ok \in Answers(t) :
    /\ t.op \in {"removeBreakpoint", "clearBreakpoints", "setBreakpointSourceMapped"}
    /\ t.pc = "request"
    /\ tasks' = Del(t)
    /\ arrays' = Collect(arrays, sessionInfo, tasks')
    /\ last' = Ret(t.op, t.sid, t.obj, IF ok THEN "ok" ELSE "RequestError")
    /\ UNCHANGED <<sessions, sessionInfo, currentThreadId, breakpointIdCounter,
                   enabled, adapter, watchVars, libVars>>

\* sourceMapTools.ts enableSourceMapsTool: the flag of the one
\* SourceMapManager all sessions share is set.  (sessionInfo.sourceMapEnabled
\* is written too, and read by no code.)
EnableSourceMaps(sid, e) ==
  LET v == validateAndGet(sid, SessionState) IN
  /\ enabled' = IF v = "ok" THEN e ELSE enabled
  /\ last' = Ret("enableSourceMaps", sid, sessions[sid],
                 IF v = "ok" THEN "configured" ELSE v)
  /\ UNCHANGED <<sessions, sessionInfo, currentThreadId, bpVars, adapter,
                 tasks, watchVars, libVars>>

\* ------------------------------------------------------------ stack frames
\* SourceMapManager.transformStackFrame / transformStackTrace over
\* SourceMapResolver.transformStackFrame.  A frame has a source path ("":
\* none); `raw` is what sourceMapSupport.mapSourcePosition answers for the
\* position of a frame of a.js (the position itself when no map applies).
FrameSet ==
  [id : {1, 2}, name : {"f"}, path : {"", "a.js"}, line : {10},
   column : {0, 5}, hint : {""}]
StackTraces ==
  UNION {{tr \in [1 .. n -> FrameSet] : \A i \in 1 .. n : tr[i].id = i} :
         n \in 0 .. MaxFrames}
RawPositions ==
  [source : {"", "a.js", "a.ts"}, line : {10, 15}, column : {0, 3},
   name : {"", "g"}]
NoPosition == [source |-> "", line |-> Null, column |-> Null, name |-> ""]

\* SourceMapResolver.mapGeneratedPositionToOriginal: null unless the source
\* or the line differs.
mapGeneratedPositionToOriginal(file, line, raw) ==
  IF raw.source # file \/ raw.line # line THEN raw ELSE NoPosition

\* SourceMapResolver.transformStackFrame: the frame info, with source,
\* sourceLine, sourceColumn and name when a position was mapped.
resolverTransformStackFrame(info, raw) ==
  LET mapped == mapGeneratedPositionToOriginal(info.file, info.line, raw) IN
  IF info.file = "" \/ mapped = NoPosition
  THEN [info EXCEPT !.source = "", !.sourceLine = Null, !.sourceColumn = Null]
  ELSE [info EXCEPT !.source = mapped.source, !.sourceLine = mapped.line,
                    !.sourceColumn = mapped.column,
                    !.name = IF mapped.name # "" THEN mapped.name ELSE info.name]

Rebuilt(frame, transformed) ==
  [frame EXCEPT
     !.path = transformed.source,
     !.line = transformed.sourceLine,
     !.column = IF Truthy(transformed.sourceColumn)
                THEN transformed.sourceColumn ELSE frame.column,
     !.name = IF transformed.name # "" THEN transformed.name ELSE frame.name,
     !.hint = "normal"]
InfoOf(frame) ==
  [file |-> frame.path, line |-> frame.line, column |-> frame.column,
   name |-> frame.name, source |-> "", sourceLine |-> Null, sourceColumn |-> Null]

transformStackFrameAlways(frame, raw, on) ==
  IF ~on \/ frame.path = "" THEN frame
  ELSE Rebuilt(frame, [resolverTransformStackFrame(InfoOf(frame), raw)
                         EXCEPT !.source = frame.path, !.sourceLine = frame.line])

transformStackFrame(frame, raw, on) ==
  IF ~on \/ frame.path = "" THEN frame
  ELSE LET transformed == resolverTransformStackFrame(InfoOf(frame), raw) IN
       IF transformed.source # "" /\ transformed.sourceLine # Null
       THEN Rebuilt(frame, transformed) ELSE frame

transformStackTrace(frames, raw, on) ==
  IF ~on THEN frames
  ELSE [i \in 1 .. Len(frames) |-> transformStackFrame(frames[i], raw, on)]

\* SourceMapManager.setEnabled.
SetEnabled(e) ==
  /\ enabled' = e
  /\ last' = Ret("setEnabled", "", 0, "set")
  /\ UNCHANGED <<sessions, sessionInfo, currentThreadId, bpVars, adapter,
                 tasks, watchVars, libVars>>

TransformStackTrace(frames, raw) ==
  /\ stackIn' = [frames |-> frames, raw |-> raw, enabled |-> enabled]
  /\ stackOut' = transformStackTrace(frames, raw, enabled)
  /\ last' = Ret("transformStackTrace", "", 0, "transformed")
  /\ UNCHANGED <<sessions, sessionInfo, currentThreadId, bpVars, enabled,
                 adapter, tasks, watchVars, files, cache, sourceCache, returned,
                 wireVars,
                 clientVars>>

\* -------------------------------------------------- Content-Length framer
\* debug-adapter.ts.  The text on the wire is a sequence of characters:
\* "C" stands for the header name "Content-Length: ", a digit for the
\* decimal length, "N" for "\r\n"; "{", "a" and "}" are one-byte characters
\* of a JSON body and "U" is a character of the body that takes two bytes
\* in UTF-8 and one code unit in a JavaScript string.
Digits == {"2", "3", "4"}
DigitOf(n) == CHOOSE d \in Digits : ("2" = d /\ n = 2) \/ ("3" = d /\ n = 3) \/ ("4" = d /\ n = 4)
parseInt(d) == CHOOSE n \in 2 .. 4 : DigitOf(n) = d
Messages == {<<"{", "}">>, <<"{", "a", "}">>, <<"{", "U", "}">>}

RECURSIVE byteLength(_)
byteLength(json) ==
  IF json = <<>> THEN 0
  ELSE (IF Head(json) = "U" THEN 2 ELSE 1) + byteLength(Tail(json))

\* sendMessage: header + json.
Framed(json) == <<"C", DigitOf(byteLength(json)), "N", "N">> \o json

\* JSON.parse succeeds on a whole object.
ParsesAsJSON(text) ==
  /\ Len(text) >= 2 /\ text[1] = "{" /\ text[Len(text)] = "}"
  /\ \A i \in 2 .. Len(text) - 1 : text[i] \in {"a", "U"}

\* buffer.indexOf("\r\n\r\n"), 1-based, 0 when absent.
HeaderEnd(buf) ==
  IF \E i \in 1 .. Len(buf) - 1 : buf[i] = "N" /\ buf[i + 1] = "N"
  THEN CHOOSE i \in 1 .. Len(buf) - 1 :
         /\ buf[i] = "N" /\ buf[i + 1] = "N"
         /\ \A j \in 1 .. i - 1 : ~(buf[j] = "N" /\ buf[j + 1] = "N")
  ELSE 0
\* header.match(/Content-Length: (\d+)/): the first match, 0 when none.
LengthMatch(header) ==
  IF \E i \in 1 .. Len(header) - 1 : header[i] = "C" /\ header[i + 1] \in Digits
  THEN CHOOSE i \in 1 .. Len(header) - 1 :
         /\ header[i] = "C" /\ header[i + 1] \in Digits
         /\ \A j \in 1 .. i - 1 : ~(header[j] = "C" /\ header[j + 1] \in Digits)
  ELSE 0

\* The while loop of the "data" listener: the buffer it leaves and the
\* messages it has handed to handleRequest.
RECURSIVE Extract(_, _)
Extract(buf, out) ==
  LET headerEnd == HeaderEnd(buf)
      header == SubSeq(buf, 1, headerEnd - 1)
      match == LengthMatch(header)
      contentLength == parseInt(header[match + 1])
      messageStart == headerEnd + 2
      message == SubSeq(buf, messageStart, messageStart + contentLength - 1)
      rest == SubSeq(buf, messageStart + contentLength, Len(buf))
  IN IF headerEnd = 0 THEN [buffer |-> buf, out |-> out]
     ELSE IF match = 0 THEN [buffer |-> buf, out |-> out]
     ELSE IF Len(buf) < messageStart - 1 + contentLength
          THEN [buffer |-> buf, out |-> out]
     ELSE Extract(rest, IF ParsesAsJSON(message) THEN Append(out, message) ELSE out)

\* A client writes one framed message to the adapter's stdin.
SendMessage(json) ==
  /\ Len(sent) < MaxMsgs
  /\ wire' = wire \o Framed(json)
  /\ sent' = Append(sent, json)
  /\ last' = Ret("sendMessage", "", 0, "written")
  /\ UNCHANGED <<sessions, sessionInfo, currentThreadId, bpVars, enabled,
                 adapter, tasks, watchVars, stackIn, stackOut, files, cache,
                 sourceCache, returned, buffer, emitted, clientVars>>

\* process.stdin.on("data"): one read delivers the next n characters.
OnData(n) ==
  LET chunk == SubSeq(wire, 1, n)
      r == Extract(buffer \o chunk, emitted)
  IN /\ n \in 1 .. Len(wire)
     /\ wire' = SubSeq(wire, n + 1, Len(wire))
     /\ buffer' = r.buffer
     /\ emitted' = r.out
     /\ last' = Label("event", "data", "", 0, "read")
     /\ UNCHANGED <<sessions, sessionInfo, currentThreadId, bpVars, enabled,
                    adapter, tasks, watchVars, stackIn, stackOut, files,
                    cache, sourceCache, returned, sent, clientVars>>

\* ------------------------------------------------------ request dispatcher
\* DAPClient.sendRequest and its handling of inbound responses.
\* sendRequest: the next sequence number, a pending entry keyed by it.
SendRequest ==
  /\ seqCounter < MaxSeq
  /\ seqCounter' = seqCounter + 1
  /\ pendingRequests' = pendingRequests \cup {seqCounter + 1}
  /\ last' = Call("sendRequest", "", 0)
  /\ UNCHANGED <<sessions, sessionInfo, currentThreadId, bpVars, enabled,
                 adapter, tasks, watchVars, stackIn, stackOut, files, cache,
                 sourceCache, returned, wireVars, completion,
                 initializedEmitted, stopTop>>

\* The pending entry a response completes.
entryByArrival(pend, response) ==
  IF pend = {} THEN 0 ELSE CHOOSE n \in pend : \A m \in pend : n <= m
entryOf(pend, response) ==
  IF response.request_seq \in pend THEN response.request_seq ELSE 0

\* An inbound response: the entry found is completed with the body, or with
\* a request error; a response that finds no entry is discarded.
OnResponse(response) ==
  LET n == entryOf(pendingRequests, response) IN
  /\ IF n # 0
     THEN /\ pendingRequests' = pendingRequests \ {n}
          /\ completion' = [completion EXCEPT ![n] =
               [how |-> IF response.success THEN "resolved" ELSE "rejected",
                body |-> response.body]]
          /\ last' = Ret("sendRequest", "", 0,
                         IF response.success THEN "resolved" ELSE "rejected")
     ELSE /\ UNCHANGED <<pendingRequests, completion>>
          /\ last' = Label("event", "response", "", 0, "discarded")
  /\ UNCHANGED <<sessions, sessionInfo, currentThreadId, bpVars, enabled,
                 adapter, tasks, watchVars, stackIn, stackOut, files, cache,
                 sourceCache, returned, wireVars, seqCounter,
                 initializedEmitted, stopTop>>

\* ------------------------------------------------------ source-map caches
\* SourceMapResolver.retrieveSourceMap, getSourceContent, clearCache and
\* hasSourceMap.  A map is named by its content; "null" is a cached absence.
FoundMap(fst) ==
  IF fst.mapFile # "" THEN fst.mapFile
  ELSE IF fst.source = "inline" THEN "inlineMap"
  ELSE IF fst.source = "ref" /\ fst.refFile # "" THEN fst.refFile
  ELSE "null"

\* The entry the cache holds after the call; the call returns that entry.
retrieveSourceMapNoAbsence(entry, fst) ==
  IF entry # NoEntry /\ entry # "null" THEN entry ELSE FoundMap(fst)
retrieveSourceMap(entry, fst) ==
  IF entry # NoEntry THEN entry ELSE FoundMap(fst)

\* The lines getSourceContent returns ("null": none) and the entry it leaves.
ContentLines(fst) == IF fst.source = "" THEN "null" ELSE fst.source
getSourceContent(entry, fst) ==
  IF entry # NoEntry THEN [result |-> entry, entry |-> entry]
  ELSE IF fst.source # "" THEN [result |-> ContentLines(fst), entry |-> ContentLines(fst)]
  ELSE [result |-> "null", entry |-> NoEntry]

HasSourceMap(f) ==
  LET e == retrieveSourceMap(cache[f], files[f]) IN
  /\ cache' = [cache EXCEPT ![f] = e]
  /\ returned' = [returned EXCEPT ![f].has = IF e # "null" THEN "true" ELSE "false"]
  /\ last' = Ret("hasSourceMap", "", 0, IF e # "null" THEN "true" ELSE "false")
  /\ UNCHANGED <<sessions, sessionInfo, currentThreadId, bpVars, enabled,
                 adapter, tasks, watchVars, stackIn, stackOut, files, sourceCache,
                 wireVars,
                 clientVars>>

GetSourceContent(f) ==
  LET r == getSourceContent(sourceCache[f], files[f]) IN
  /\ sourceCache' = [sourceCache EXCEPT ![f] = r.entry]
  /\ returned' = [returned EXCEPT ![f].content = r.result]
  /\ last' = Ret("getSourceContent", "", 0, r.result)
  /\ UNCHANGED <<sessions, sessionInfo, currentThreadId, bpVars, enabled,
                 adapter, tasks, watchVars, stackIn, stackOut, files, cache,
                 wireVars,
                 clientVars>>

ClearCache ==
  /\ cache' = [f \in Files |-> NoEntry]
  /\ sourceCache' = [f \in Files |-> NoEntry]
  /\ returned' = [f \in Files |-> [has |-> NoEntry, content |-> NoEntry]]
  /\ last' = Ret("clearCache", "", 0, "cleared")
  /\ UNCHANGED <<sessions, sessionInfo, currentThreadId, bpVars, enabled,
                 adapter, tasks, watchVars, stackIn, stackOut, files, wireVars,
                 clientVars>>

\* The files change on disk.
FileChange(f, fst) ==
  /\ files[f] # fst
  /\ files' = [files EXCEPT ![f] = fst]
  /\ last' = Label("fs", "write", "", 0, "file changed")
  /\ UNCHANGED <<sessions, sessionInfo, currentThreadId, bpVars, enabled,
                 adapter, tasks, watchVars, stackIn, stackOut, cache,
                 sourceCache, returned, wireVars,
                 clientVars>>

\* -------------------------------------------------------------- cleanup
\* debuggingTools.ts cleanupSessionsTool.  The loop runs over the copy
\* getAll() returns; `stale` tells whether the entry has been idle longer
\* than maxIdle.  An entry that is not TERMINATED is disconnected first.
ToClean(o, stale) == sessionInfo[o].state \in {TERMINATED, ERROR} \/ stale

Cleanup(sid, stale) ==
  LET o == sessions[sid] IN
  \/ /\ o = 0 \/ (o # 0 /\ ~ToClean(o, stale))
     /\ last' = Ret("cleanup", sid, o, "nothingCleaned")
     /\ UNCHANGED <<sessions, sessionInfo, currentThreadId, bpVars, enabled,
                    adapter, tasks, watchVars, libVars>>
  \/ /\ o # 0 /\ ToClean(o, stale)
     /\ sessionInfo[o].state = TERMINATED
     /\ sessions' = [sessions EXCEPT ![sid] = 0]
     /\ last' = Ret("cleanup", sid, o, "cleaned")
     /\ UNCHANGED <<sessionInfo, currentThreadId, bpVars, enabled, adapter,
                    tasks, watchVars, libVars>>
  \/ /\ o # 0 /\ ToClean(o, stale)
     /\ sessionInfo[o].state # TERMINATED
     /\ Room
     /\ tasks' = Add(Task("cleanup", sid, o, "request"))
     /\ last' = Call("cleanup", sid, o)
     /\ UNCHANGED <<sessions, sessionInfo, currentThreadId, bpVars, enabled,
                    adapter, watchVars, libVars>>

\* disconnect(true) answered or failed: the failure is ignored, then
\* sessionManager.delete(sessionId).
cleanupDelete(reg, sid, obj) == [reg EXCEPT ![sid] = 0]

CleanupDoneOf(t, ok) ==
  /\ t.op = "cleanup" /\ t.pc = "request"
  /\ adapter' = IF ok THEN [adapter EXCEPT ![t.obj].transport = "closed"]
                ELSE adapter
  /\ sessions' = cleanupDelete(sessions, t.sid, t.obj)
  /\ tasks' = Del(t)
  /\ last' = Ret(t.op, t.sid, t.obj, "cleaned")
  /\ UNCHANGED <<sessionInfo, currentThreadId, bpVars, enabled, watchVars, libVars>>

CleanupDone == \E t \in Pending : \E ok \in Answers(t) : CleanupDoneOf(t, ok)

\* ------------------------------------------------------------ event log
\* SessionManager.logDebugEvent.  The session is looked up by id in the
\* registry; the event is pushed, then written to the log file if the
\* session has one.  `file` is what happens to that write.
EventTypes == {"stopped", "output"}
LogFileOutcomes == {"none", "written", "failed"}

eventsUnshift(events, type) == <<type>> \o events
eventsPush(events, type) == Append(events, type)

LogDebugEvent(sid, type, file) ==
  \/ /\ sessions[sid] = 0
     /\ last' = Ret("logDebugEvent", sid, 0, "notLogged")
     /\ UNCHANGED <<sessions, sessionInfo, currentThreadId, bpVars, enabled,
                    adapter, tasks, watchVars, libVars>>
  \/ /\ sessions[sid] # 0
     /\ Len(sessionInfo[sessions[sid]].events) < MaxEvents
     /\ sessionInfo' = [sessionInfo EXCEPT
                          ![sessions[sid]].events = eventsPush(@, type)]
     /\ last' = Ret("logDebugEvent", sid, sessions[sid],
                    IF file = "failed" THEN "logFileError" ELSE "logged")
     /\ UNCHANGED <<sessions, currentThreadId, bpVars, enabled, adapter, tasks,
                    watchVars, libVars>>

\* The output listener of the session object o that a launch under sid
\* created (sessionTools.ts 395-398): its closure holds the id, and
\* logDebugEvent(sessionId, ...) looks the id up in the registry when the
\* event arrives and pushes on the events of the object it finds there.
OutputEventLogged(o, sid, file) ==
  /\ sessionInfo[o].state # "none"
  /\ Alive(o)
  /\ LogDebugEvent(sid, "output", file)

\* ------------------------------------------------------------- watches
\* WatchManager and the watch tools.  sessionInfo.watches is a Map from the
\* watch id to a WatchExpression object; it is kept as the sequence of its
\* entries in insertion order, and an absent Map as the empty one.  A
\* suspended call holds a reference to a WatchExpression: `w` is that object
\* and `live` tells that it is still the object the Map holds under its id,
\* so that a mutation in place is seen through the reference.
WatchIds == 1 .. MaxWatchId

generateWatchId == watchIdCounter + 1

createWatch(id, expression) ==
  [id |-> id, expression |-> expression, value |-> Undefined,
   error |-> Undefined, lastEvaluated |-> FALSE]

\* What the adapter reports for an expression in the stopped debuggee, and
\* the message of a failed evaluate request.
ResultOf(expression) == IF expression = "x" THEN "1" ELSE "2"
EvaluateError == "err"

Has(ws, id) == \E i \in 1 .. Len(ws) : ws[i].id = id
getWatchById(ws, id) == ws[CHOOSE i \in 1 .. Len(ws) : ws[i].id = id]
WatchKeys(ws) == [i \in 1 .. Len(ws) |-> ws[i].id]
RECURSIVE WithoutId(_, _)
WithoutId(ids, id) ==
  IF ids = <<>> THEN <<>>
  ELSE IF Head(ids) = id THEN WithoutId(Tail(ids), id)
       ELSE <<Head(ids)>> \o WithoutId(Tail(ids), id)

\* Map.set: an existing key keeps its place, a new key goes last.
MapSet(ws, watch) ==
  IF Has(ws, watch.id)
  THEN [i \in 1 .. Len(ws) |-> IF ws[i].id = watch.id THEN watch ELSE ws[i]]
  ELSE Append(ws, watch)

addWatchToSession(ws, id, expression) == MapSet(ws, createWatch(id, expression))

removeWatchFromSession(ws, id) == SelectSeq(ws, LAMBDA x : x.id # id)

\* The stored object is written in place.
updateWatchExpression(ws, id, newExpression) ==
  [i \in 1 .. Len(ws) |->
     IF ws[i].id = id THEN createWatch(id, newExpression) ELSE ws[i]]

\* evaluateWatch after its await: a new object spread from `watch` as it is
\* when the response is processed.
evaluateWatchKeepsOld(watch, result, ok) ==
  IF ok THEN [watch EXCEPT !.value = result, !.lastEvaluated = TRUE]
  ELSE [watch EXCEPT !.error = EvaluateError, !.lastEvaluated = TRUE]

evaluateWatch(watch, result, ok) ==
  IF ok THEN [watch EXCEPT !.value = result, !.error = Undefined,
                           !.lastEvaluated = TRUE]
  ELSE [watch EXCEPT !.value = Undefined, !.error = EvaluateError,
                     !.lastEvaluated = TRUE]

\* DebugSession.evaluate: `frameId || this.currentFrameId || undefined`.
FrameSent(o, frameId) ==
  IF Truthy(frameId) THEN frameId
  ELSE IF Truthy(currentFrameId[o]) THEN currentFrameId[o] ELSE Null

\* The object a suspended call refers to, as it is now.
Referred(t) ==
  IF t.live THEN getWatchById(sessionInfo[t.obj].watches, t.w.id) ELSE t.w

WatchOps == {"addWatch", "updateWatch", "evaluateWatches"}
\* A watch tool that awaits an evaluation is called while fewer than
\* MaxWatchCalls such calls are suspended.
WatchRoom ==
  /\ Room
  /\ BagCardinality([t \in {x \in Pending : x.op \in WatchOps} |-> tasks[t]])
       < MaxWatchCalls

\* What the suspended calls on object o see of a change of the Map made to
\* the key id: "delete" and "clear" drop the entry, "replace" puts a new
\* object under an existing key, "append" puts one under a new key.
WatchSees(t, o, how, id) ==
  IF ~(t.op \in WatchOps /\ t.obj = o) THEN t
  ELSE LET hit == t.live /\ (how = "clear" \/ (t.w.id = id /\ how # "append"))
           t1 == IF hit THEN [t EXCEPT !.live = FALSE, !.w = Referred(t)] ELSE t
       IN IF t.op # "evaluateWatches" THEN t1
          ELSE [t1 EXCEPT !.rem = IF how = "delete" THEN WithoutId(@, id)
                                  ELSE IF how = "append" THEN Append(@, id)
                                  ELSE IF how = "clear" THEN <<>>
                                  ELSE @]
WatchIters(B, o, how, id) ==
  LET S == BagToSet(B)
      T == {WatchSees(y, o, how, id) : y \in S}
  IN [x \in T |->
        BagCardinality([y \in {z \in S : WatchSees(z, o, how, id) = x} |-> B[y]])]
HowSet(ws, id) == IF Has(ws, id) THEN "replace" ELSE "append"

\* The text a tool returns about a watch object.
Shown(watch) ==
  IF watch.value # Undefined THEN watch.value
  ELSE IF watch.error # Undefined THEN watch.error
  ELSE "noValue"

\* The request evaluateWatch sends for the object `watch`.
EvalTask(op, sid, o, watch, frameId, rem, reqs) ==
  [Task(op, sid, o, "evaluate") EXCEPT
     !.w = watch, !.live = TRUE, !.expr = watch.expression,
     !.frame = frameId, !.rem = rem,
     !.reqs = Append(reqs, [id |-> watch.id, frame |-> FrameSent(o, frameId)])]

\* watchTools.ts addWatchTool, up to the await of evaluateWatch or to its
\* return.
AddWatch(sid, expression, evaluate) ==
  LET v == validateAndGet(sid, SessionState)
      o == sessions[sid]
  IN
  \/ /\ v # "ok"
     /\ last' = Ret("addWatch", sid, o, v)
     /\ UNCHANGED <<sessions, sessionInfo, currentThreadId, bpVars, enabled,
                    adapter, tasks, watchVars, libVars>>
  \/ /\ v = "ok"
     /\ watchIdCounter < MaxWatchId
     /\ LET id == generateWatchId
            ws == addWatchToSession(sessionInfo[o].watches, id, expression)
        IN
        /\ watchIdCounter' = id
        /\ sessionInfo' = [sessionInfo EXCEPT ![o].watches = ws]
        /\ IF evaluate /\ sessionInfo[o].state = STOPPED
           THEN /\ WatchRoom
                /\ tasks' = WatchIters(tasks, o, "append", id)
                              (+) SetToBag({EvalTask("addWatch", sid, o,
                                     createWatch(id, expression), Null, <<>>, <<>>)})
                /\ last' = Call("addWatch", sid, o)
           ELSE /\ tasks' = WatchIters(tasks, o, "append", id)
                /\ last' = Ret("addWatch", sid, o, Shown(createWatch(id, expression)))
     /\ UNCHANGED <<sessions, currentThreadId, bpVars, enabled, adapter,
                    currentFrameId, libVars>>

\* The rest of addWatchTool and updateWatchTool: set(watch.id, evaluated),
\* then the text built from the object the tool held before the await.
EvalDoneOf(t, ok) ==
  /\ t.op \in {"addWatch", "updateWatch"} /\ t.pc = "evaluate"
  /\ LET ws == sessionInfo[t.obj].watches
         evaluated == evaluateWatch(Referred(t), ResultOf(t.expr), ok)
         held == Referred(t)
     IN
     /\ sessionInfo' = [sessionInfo EXCEPT ![t.obj].watches = MapSet(ws, evaluated)]
     /\ tasks' = WatchIters(Del(t), t.obj, HowSet(ws, t.w.id), t.w.id)
     /\ last' = Ret(t.op, t.sid, t.obj, Shown(held))
  /\ UNCHANGED <<sessions, currentThreadId, bpVars, enabled, adapter, watchVars, libVars>>

EvalDone == \E t \in Pending : \E ok \in Answers(t) : EvalDoneOf(t, ok)

\* watchTools.ts updateWatchTool, up to the await of evaluateWatch or to its
\* return.
UpdateWatch(sid, id, expression, evaluate) ==
  LET v == validateAndGet(sid, SessionState)
      o == sessions[sid]
  IN
  \/ /\ v # "ok"
     /\ last' = Ret("updateWatch", sid, o, v)
     /\ UNCHANGED <<sessions, sessionInfo, currentThreadId, bpVars, enabled,
                    adapter, tasks, watchVars, libVars>>
  \/ /\ v = "ok"
     /\ ~Has(sessionInfo[o].watches, id)
     /\ last' = Ret("updateWatch", sid, o, "watchNotFound")
     /\ UNCHANGED <<sessions, sessionInfo, currentThreadId, bpVars, enabled,
                    adapter, tasks, watchVars, libVars>>
  \/ /\ v = "ok"
     /\ Has(sessionInfo[o].watches, id)
     /\ sessionInfo' = [sessionInfo EXCEPT
                          ![o].watches = updateWatchExpression(@, id, expression)]
     /\ IF evaluate /\ sessionInfo[o].state = STOPPED
        THEN /\ WatchRoom
             /\ tasks' = Add(EvalTask("updateWatch", sid, o,
                                      createWatch(id, expression), Null, <<>>, <<>>))
             /\ last' = Call("updateWatch", sid, o)
        ELSE /\ tasks' = tasks
             /\ last' = Ret("updateWatch", sid, o, Shown(createWatch(id, expression)))
     /\ UNCHANGED <<sessions, currentThreadId, bpVars, enabled, adapter, watchVars, libVars>>

\* watchTools.ts removeWatchTool.
RemoveWatch(sid, id) ==
  LET v == validateAndGet(sid, SessionState)
      o == sessions[sid]
  IN
  \/ /\ v # "ok"
     /\ last' = Ret("removeWatch", sid, o, v)
     /\ UNCHANGED <<sessions, sessionInfo, currentThreadId, bpVars, enabled,
                    adapter, tasks, watchVars, libVars>>
  \/ /\ v = "ok"
     /\ ~Has(sessionInfo[o].watches, id)
     /\ last' = Ret("removeWatch", sid, o, "watchNotFound")
     /\ UNCHANGED <<sessions, sessionInfo, currentThreadId, bpVars, enabled,
                    adapter, tasks, watchVars, libVars>>
  \/ /\ v = "ok"
     /\ Has(sessionInfo[o].watches, id)
     /\ sessionInfo' = [sessionInfo EXCEPT
                          ![o].watches = removeWatchFromSession(@, id)]
     /\ tasks' = WatchIters(tasks, o, "delete", id)
     /\ last' = Ret("removeWatch", sid, o, "removed")
     /\ UNCHANGED <<sessions, currentThreadId, bpVars, enabled, adapter, watchVars, libVars>>

\* watchTools.ts clearWatchesTool.
ClearWatches(sid) ==
  LET v == validateAndGet(sid, SessionState)
      o == sessions[sid]
  IN
  \/ /\ v # "ok"
     /\ last' = Ret("clearWatches", sid, o, v)
     /\ UNCHANGED <<sessions, sessionInfo, currentThreadId, bpVars, enabled,
                    adapter, tasks, watchVars, libVars>>
  \/ /\ v = "ok"
     /\ sessionInfo' = [sessionInfo EXCEPT ![o].watches = <<>>]
     /\ tasks' = WatchIters(tasks, o, "clear", 0)
     /\ last' = Ret("clearWatches", sid, o, "cleared")
     /\ UNCHANGED <<sessions, currentThreadId, bpVars, enabled, adapter, watchVars, libVars>>

\* watchTools.ts evaluateWatchesTool, up to the first await of
\* evaluateAllWatches.
EvaluateWatches(sid, frameId) ==
  LET v == validateAndGet(sid, {STOPPED})
      o == sessions[sid]
  IN
  \/ /\ v # "ok"
     /\ last' = Ret("evaluateWatches", sid, o, v)
     /\ UNCHANGED <<sessions, sessionInfo, currentThreadId, bpVars, enabled,
                    adapter, tasks, watchVars, libVars>>
  \/ /\ v = "ok"
     /\ sessionInfo[o].watches = <<>>
     /\ last' = Ret("evaluateWatches", sid, o, "noWatches")
     /\ UNCHANGED <<sessions, sessionInfo, currentThreadId, bpVars, enabled,
                    adapter, tasks, watchVars, libVars>>
  \/ /\ v = "ok"
     /\ sessionInfo[o].watches # <<>>
     /\ WatchRoom
     /\ LET ws == sessionInfo[o].watches IN
        tasks' = Add(EvalTask("evaluateWatches", sid, o, Head(ws), frameId,
                              Tail(WatchKeys(ws)), <<>>))
     /\ last' = Call("evaluateWatches", sid, o)
     /\ UNCHANGED <<sessions, sessionInfo, currentThreadId, bpVars, enabled,
                    adapter, watchVars, libVars>>

\* The keys evaluateAllWatches still visits after an evaluation.
evaluateAllWatchesAborts(rem, ok) == IF ok THEN rem ELSE <<>>
evaluateAllWatchesRest(rem, ok) == rem

\* One turn of the loop of evaluateAllWatches: set(id, evaluated), then the
\* next entry of the Map iterator or the return of the tool.
EvalAllStepOf(t, ok) ==
  /\ t.op = "evaluateWatches" /\ t.pc = "evaluate"
  /\ LET o == t.obj
         ws == sessionInfo[o].watches
         how == HowSet(ws, t.w.id)
         evaluated == evaluateWatch(Referred(t), ResultOf(t.expr), ok)
         ws1 == MapSet(ws, evaluated)
         rem == evaluateAllWatchesRest(
                  IF how = "append" THEN Append(t.rem, t.w.id) ELSE t.rem, ok)
         others == WatchIters(Del(t), o, how, t.w.id)
     IN
     /\ sessionInfo' = [sessionInfo EXCEPT ![o].watches = ws1]
     /\ IF rem = <<>>
        THEN /\ tasks' = others
             /\ last' = Ret(t.op, t.sid, o, "evaluated")
        ELSE /\ Len(t.reqs) < MaxReqs
             /\ tasks' = others (+) SetToBag({
                  EvalTask(t.op, t.sid, o, getWatchById(ws1, Head(rem)), t.frame,
                           Tail(rem), t.reqs)})
             /\ last' = Label("step", t.op, t.sid, o, "next watch")
  /\ UNCHANGED <<sessions, currentThreadId, bpVars, enabled, adapter, watchVars, libVars>>

EvalAllStep == \E t \in Pending : \E ok \in Answers(t) : EvalAllStepOf(t, ok)

\* debuggingTools.ts getStackTraceTool, up to the await of the request.
StackTrace(sid, tid) ==
  LET v == validateAndGet(sid, {STOPPED})
      o == sessions[sid]
  IN
  \/ /\ v # "ok"
     /\ last' = Ret("stackTrace", sid, o, v)
     /\ UNCHANGED <<sessions, sessionInfo, currentThreadId, bpVars, enabled,
                    adapter, tasks, watchVars, libVars>>
  \/ /\ v = "ok"
     /\ IF Truthy(IF Truthy(tid) THEN tid ELSE currentThreadId[o])
        THEN /\ Room
             /\ tasks' = Add(Task("stackTrace", sid, o, "request"))
             /\ last' = Call("stackTrace", sid, o)
        ELSE /\ tasks' = tasks
             /\ last' = Ret("stackTrace", sid, o, "NoActiveThread")
     /\ UNCHANGED <<sessions, sessionInfo, currentThreadId, bpVars, enabled,
                    adapter, watchVars, libVars>>

\* DebugSession.getStackTrace after its await: the id of the top frame
\* becomes the frame cursor (top = Null: no frame in the response).
StackTraceDone ==
  \E t \in Pending : \E ok \in Answers(t), top \in FrameIds \cup {Null} :
    /\ t.op = "stackTrace" /\ t.pc = "request"
    /\ (~ok => top = Null)
    /\ currentFrameId' = [currentFrameId EXCEPT ![t.obj] =
                            IF ok /\ top # Null THEN top ELSE @]
    /\ tasks' = Del(t)
    /\ last' = Ret(t.op, t.sid, t.obj, IF ok THEN "ok" ELSE "RequestError")
    /\ UNCHANGED <<sessions, sessionInfo, currentThreadId, bpVars, enabled,
                   adapter, watchIdCounter, libVars>>

\* ------------------------------------------------------- specifications
LifeNext ==
  \/ \E op \in StartOps, sid \in SessionIds, stop \in BOOLEAN :
       (op = "attach" => ~stop) /\ Launch(op, sid, stop)
  \/ ConnectDone
  \/ ConfigurationDone
  \/ LaunchDone
  \/ \E op \in ExecOps, sid \in SessionIds, tid \in ArgThreadIds : Exec(op, sid, tid)
  \/ ExecDone
  \/ \E op \in EndOps, sid \in SessionIds : End(op, sid)
  \/ EndDone
  \/ \E o \in Objs, tid \in EventThreadIds, hits \in HitSets : StoppedEvent(o, tid, hits)
  \/ \E o \in Objs : ContinuedEvent(o)
  \/ \E o \in Objs : TerminatedEvent(o)
  \/ \E o \in Objs : ExitedEvent(o)
  \/ \E o \in Objs : OutputEvent(o)

BpNext ==
  \/ \E sid \in SessionIds, src \in Sources, lines \in LineSeqs, conds \in CondArgs :
       SetBreakpoints(sid, src, lines, conds)
  \/ \E sid \in SessionIds, src \in Sources, line \in Lines, cond \in Conditions :
       SetBreakpoint(sid, src, line, cond)
  \/ SetDone
  \/ \E sid \in SessionIds, src \in Sources, line \in LineArgs :
       RemoveBreakpoint(sid, src, line)
  \/ \E sid \in SessionIds, src \in Sources \cup {""} : ClearBreakpoints(sid, src)
  \/ ClearAllDone
  \/ PlainDone

MapNext ==
  \/ \E sid \in SessionIds, src \in Sources, line \in Lines, cond \in Conditions :
       SetBreakpoint(sid, src, line, cond)
  \/ SetDone
  \/ \E sid \in SessionIds, src \in Sources, line \in Lines, cond \in Conditions,
        exists \in BOOLEAN : SetBreakpointSourceMapped(sid, src, line, cond, exists)
  \/ PlainDone

\* The execution tools and the events that move a session between RUNNING,
\* STOPPED and TERMINATED.
ExecNext ==
  \/ \E op \in ExecOps, sid \in SessionIds, tid \in ArgThreadIds : Exec(op, sid, tid)
  \/ ExecDone
  \/ \E o \in Objs : ContinuedEvent(o)
  \/ \E o \in Objs : TerminatedEvent(o)
  \/ \E sid \in SessionIds : GetSessionInfo(sid)

\* The lifecycle steps that open a session for the breakpoint tools and the
\* stops of the debuggee.
BpLife ==
  \/ \E sid \in SessionIds :
       (nObjs = 0 \/ ensureNotExists(sid)) /\ Launch("launch", sid, TRUE)
  \/ ConnectDone
  \/ ConfigurationDone
  \/ LaunchDone
  \/ \E o \in Objs, hits \in HitSets : StoppedEvent(o, 1, hits)

\* Terminate and disconnect beside the execution tools, with an adapter that
\* may leave a request unanswered.
EndNext ==
  \/ \E sid \in SessionIds, tid \in ArgThreadIds : Exec("continue", sid, tid)
  \/ ExecDone
  \/ \E op \in EndOps, sid \in SessionIds : End(op, sid)
  \/ EndDone
  \/ NeverAnswered

\* Launch with the handshake of connect() step by step.
ConnectNext ==
  \/ \E sid \in SessionIds, stop \in BOOLEAN : Launch("launch", sid, stop)
  \/ InitializeResponse
  \/ ConnectResume
  \/ \E o \in Objs : InitializedEvent(o)
  \/ ConfigurationDone
  \/ LaunchDone
  \/ \E o \in Objs, hits \in HitSets : StoppedEvent(o, 1, hits)
  \/ \E sid \in SessionIds : GetSessionInfo(sid)

\* One session launched once, continued, and stopped by the adapter at any
\* time, also while a launch or continue request is awaiting its response.
RaceNext ==
  \/ \E sid \in SessionIds, stop \in BOOLEAN : nObjs = 0 /\ Launch("launch", sid, stop)
  \/ ConnectDone
  \/ ConfigurationDone
  \/ LaunchDone
  \/ \E sid \in SessionIds, tid \in ArgThreadIds : Exec("continue", sid, tid)
  \/ ExecDone
  \/ \E o \in Objs, tid \in EventThreadIds, hits \in HitSets : StoppedEvent(o, tid, hits)
  \/ \E o \in Objs : ContinuedEvent(o)
  \/ \E sid \in SessionIds : GetSessionInfo(sid)

\* ------------------------------------------- launch with logging enabled
\* launchDebugSessionTool / attachDebugSessionTool called with enableLogging
\* (sessionTools.ts 31-44, 111-124): ensureNotExists, which throws or
\* deletes the ended entry of the id, then `await ensureLogsDirectory()`;
\* the call is suspended before it has built or registered its session.
Starting == {t \in Pending : t.pc = "logsDirectory"}
LaunchLogging(op, sid) ==
  \/ /\ ensureNotExists(sid)
     /\ last' = Ret(op, sid, sessions[sid], "AlreadyExists")
     /\ UNCHANGED <<sessions, sessionInfo, currentThreadId, bpVars, enabled,
                    adapter, tasks, watchVars, libVars>>
  \/ /\ ~ensureNotExists(sid)
     /\ nObjs + Cardinality(Starting) < MaxObjs
     /\ Room
     /\ sessions' = [sessions EXCEPT ![sid] = 0]
     /\ tasks' = Add(Task(op, sid, 0, "logsDirectory"))
     /\ last' = Call(op, sid, 0)
     /\ UNCHANGED <<sessionInfo, currentThreadId, bpVars, enabled, adapter,
                    watchVars, libVars>>

\* The logs directory is there (sessionTools.ts 46-66): the SessionInfo is
\* built, sessionManager.set(sessionId, sessionInfo) puts it under the id
\* whatever the registry holds there, and session.connect() is awaited.
LaunchRegisterOf(t) ==
  /\ t.op \in StartOps /\ t.pc = "logsDirectory"
  /\ nObjs < MaxObjs
  /\ LET o == nObjs + 1 IN
     /\ sessions' = [sessions EXCEPT ![t.sid] = o]
     /\ sessionInfo' = [sessionInfo EXCEPT ![o] =
            [state |-> CONNECTING, breakpoints |-> [s \in Sources |-> 0],
             watches |-> <<>>, events |-> <<>>]]
     /\ adapter' = [adapter EXCEPT ![o].transport = "open"]
     /\ tasks' = Add([t EXCEPT !.obj = o, !.pc = "connect"]) (-) SetToBag({t})
     /\ last' = Call(t.op, t.sid, o)
  /\ UNCHANGED <<currentThreadId, bpVars, enabled, watchVars, libVars>>

LaunchRegister == \E t \in Pending : LaunchRegisterOf(t)

\* session.connect() rejected: the catch block (sessionTools.ts 93-96,
\* 173-176) writes ERROR on the object of this call, and logDebugEvent
\* pushes the error event on the object the registry holds under the id and
\* awaits the append to its log file.
LaunchCatch(t) ==
  /\ sessionInfo' =
       LET si == [sessionInfo EXCEPT ![t.obj].state = ERROR] IN
       IF sessions[t.sid] = 0 THEN si
       ELSE [si EXCEPT ![sessions[t.sid]].events = eventsPush(@, "error")]
  /\ tasks' = Add([t EXCEPT !.pc = "logError"]) (-) SetToBag({t})
  /\ last' = Call(t.op, t.sid, t.obj)
  /\ UNCHANGED <<sessions, currentThreadId, bpVars, enabled, adapter,
                 watchVars, libVars>>

ConnectFailed ==
  \E t \in Pending : t.op \in StartOps /\ t.pc = "connect" /\ LaunchCatch(t)

\* The append settled: sessionManager.delete(sessionId) and the rethrow
\* (sessionTools.ts 96-97, 176-177).
LaunchCatchDoneOf(t) ==
  /\ t.op \in StartOps /\ t.pc = "logError"
  /\ sessions' = [sessions EXCEPT ![t.sid] = 0]
  /\ tasks' = Del(t)
  /\ last' = Ret(t.op, t.sid, t.obj, "RequestError")
  /\ UNCHANGED <<sessionInfo, currentThreadId, bpVars, enabled, adapter,
                 watchVars, libVars>>

LaunchCatchDone == \E t \in Pending : LaunchCatchDoneOf(t)

\* Launches and attaches with logging enabled under one id, their connects
\* failing or staying unanswered, and the events of the adapters.
LoggingNext ==
  \/ \E op \in StartOps, sid \in SessionIds : LaunchLogging(op, sid)
  \/ LaunchRegister
  \/ ConnectFailed
  \/ LaunchCatchDone
  \/ \E o \in Objs : StoppedEvent(o, 1, {})
  \/ \E o \in Objs : ContinuedEvent(o)
  \/ \E o \in Objs : TerminatedEvent(o)
  \/ \E sid \in SessionIds : GetSessionInfo(sid)

\* Launches and attaches whose check and registration run in one step (the
\* logs directory exists, or the log file of the session is all the call
\* needs), failing in connect and logging the error to the file.
CatchNext ==
  \/ \E op \in StartOps, sid \in SessionIds, stop \in BOOLEAN : Launch(op, sid, stop)
  \/ ConnectFailed
  \/ LaunchCatchDone
  \/ \E o \in Objs : StoppedEvent(o, 1, {})
  \/ \E o \in Objs : ContinuedEvent(o)
  \/ \E o \in Objs : TerminatedEvent(o)
  \/ \E sid \in SessionIds : GetSessionInfo(sid)

\* A session id used again: the session is launched, continued, ended by
\* the adapter's terminated event (the adapter process and the transport
\* stay up), and launched again under the same id while a request or an
\* event of the first session is still to come.
ReuseNext ==
  \/ \E sid \in SessionIds : Launch("launch", sid, FALSE)
  \/ ConnectDone
  \/ ConfigurationDone
  \/ LaunchDone
  \/ \E sid \in SessionIds : Exec("continue", sid, 1)
  \/ \E sid \in SessionIds : Exec("pause", sid, 1)
  \/ ExecDone
  \/ \E o \in Objs : StoppedEvent(o, 1, {})
  \/ \E o \in Objs : TerminatedEvent(o)
  \/ \E o \in Objs, sid \in SessionIds, file \in LogFileOutcomes :
       OutputEventLogged(o, sid, file)

\* Every execution tool with and without a thread id, on a session that may
\* never have stopped or whose stops named no thread.
ThreadNext ==
  \/ RaceNext
  \/ \E op \in ExecOps, sid \in SessionIds, tid \in ArgThreadIds : Exec(op, sid, tid)

\* A session that stops, is continued and stops again, with the refresh of
\* the frame cursor after each stop.
CursorNext ==
  \/ \E sid \in SessionIds : nObjs = 0 /\ Launch("launch", sid, TRUE)
  \/ ConnectDone
  \/ ConfigurationDone
  \/ LaunchDone
  \/ \E o \in Objs, tid \in EventThreadIds, top \in FrameIds :
       StoppedThenRefresh(o, tid, top)
  \/ RefreshDone
  \/ \E o \in Objs : ContinuedEvent(o)
  \/ \E sid \in SessionIds : GetSessionInfo(sid)

\* The adapter process dies under a launched session.
ExitNext ==
  \/ \E sid \in SessionIds, tid \in ArgThreadIds : Exec("continue", sid, tid)
  \/ ExecDone
  \/ \E o \in Objs : AdapterExit(o)
  \/ \E sid \in SessionIds : GetSessionInfo(sid)

\* Framed messages read from the wire in chunks of every size.
MaxChunk == 14          \* characters one read can deliver
FramerNext ==
  \/ \E json \in Messages : SendMessage(json)
  \/ \E n \in 1 .. MaxChunk : OnData(n)

\* Requests sent and responses received in any order.
ClientNext ==
  \/ SendRequest
  \/ \E response \in Responses : OnResponse(response)

\* The resolver queried while the files change.
CacheNext ==
  \/ \E f \in Files : HasSourceMap(f)
  \/ \E f \in Files : GetSourceContent(f)
  \/ ClearCache
  \/ \E f \in Files, fst \in FileStates : FileChange(f, fst)

\* Stack traces transformed with source maps enabled or disabled.
StackNext ==
  \/ \E e \in BOOLEAN : SetEnabled(e)
  \/ \E frames \in StackTraces, raw \in RawPositions :
       TransformStackTrace(frames, raw)

\* Two sessions side by side: source maps configured on one, a
\* source-mapped breakpoint set on the other.
TwoNext ==
  \/ \E sid \in TwoIds : Launch("launch", sid, TRUE)
  \/ ConnectDone
  \/ ConfigurationDone
  \/ LaunchDone
  \/ \E sid \in TwoIds, e \in BOOLEAN : EnableSourceMaps(sid, e)
  \/ \E sid \in TwoIds, src \in Sources, exists \in BOOLEAN :
       SetBreakpointSourceMapped(sid, src, 10, "", exists)
  \/ PlainDone

\* The cleanup sweep beside launches of the same id and the end of the
\* debuggee.
CleanupNext ==
  \/ \E sid \in SessionIds : Launch("launch", sid, FALSE)
  \/ ConnectDone
  \/ ConfigurationDone
  \/ LaunchDone
  \/ \E o \in Objs : TerminatedEvent(o)
  \/ \E sid \in SessionIds, stale \in BOOLEAN : Cleanup(sid, stale)
  \/ CleanupDone

\* Events logged at any time of the life of a session.
LogNext ==
  \/ \E sid \in SessionIds, type \in EventTypes, file \in LogFileOutcomes :
       LogDebugEvent(sid, type, file)
  \/ \E op \in EndOps, sid \in SessionIds : End(op, sid)
  \/ EndDone

\* The watch tools, called once launch has returned.
Launched == \A t \in Pending : t.op \notin StartOps
WatchNext ==
  \/ \E sid \in SessionIds, e \in Expressions, ev \in BOOLEAN :
       Launched /\ AddWatch(sid, e, ev)
  \/ \E sid \in SessionIds, id \in WatchIds, e \in Expressions, ev \in BOOLEAN :
       Launched /\ UpdateWatch(sid, id, e, ev)
  \/ EvalDone
  \/ \E sid \in SessionIds, id \in WatchIds : Launched /\ RemoveWatch(sid, id)
  \/ \E sid \in SessionIds : Launched /\ ClearWatches(sid)
  \/ \E sid \in SessionIds, f \in ArgFrameIds : Launched /\ EvaluateWatches(sid, f)
  \/ EvalAllStep

\* The watch tools with no call that mutates the watches while an
\* evaluate-all is suspended.
Quiet == \A t \in Pending : t.op \notin StartOps \cup {"evaluateWatches"}
QuietNext ==
  \/ \E sid \in SessionIds, e \in Expressions, ev \in BOOLEAN :
       Quiet /\ AddWatch(sid, e, ev)
  \/ \E sid \in SessionIds, id \in WatchIds, e \in Expressions, ev \in BOOLEAN :
       Quiet /\ UpdateWatch(sid, id, e, ev)
  \/ EvalDone
  \/ \E sid \in SessionIds, id \in WatchIds : Quiet /\ RemoveWatch(sid, id)
  \/ \E sid \in SessionIds, f \in ArgFrameIds : Launched /\ EvaluateWatches(sid, f)
  \/ EvalAllStep

\* Evaluate-all beside the stack-trace tool, which moves the frame cursor.
FrameNext ==
  \/ \E sid \in SessionIds, e \in Expressions : Launched /\ AddWatch(sid, e, FALSE)
  \/ \E sid \in SessionIds, f \in ArgFrameIds : Launched /\ EvaluateWatches(sid, f)
  \/ EvalAllStep
  \/ \E sid \in SessionIds, tid \in ArgThreadIds : Launched /\ StackTrace(sid, tid)
  \/ StackTraceDone

\* The session lifecycle: registry, state machine, execution tools, events.
Spec == Init /\ [][LifeNext]_vars

\* The execution tools on a session launched once.
SpecExec == Init /\ [][BpLife \/ ExecNext]_vars

\* The framer of the adapter's stdin.
SpecFramer == Init /\ [][FramerNext]_vars

\* The request dispatcher of one DAP client.
SpecClient == Init /\ [][ClientNext]_vars

\* The caches of the source-map resolver.
SpecCache == Init /\ [][CacheNext]_vars

\* transformStackTrace on any stack trace and mapping.
SpecStack == Init /\ [][StackNext]_vars

\* Two sessions of one server.
SpecTwo == Init /\ [][TwoNext]_vars

\* The cleanup sweep.
SpecCleanup == Init /\ [][CleanupNext]_vars

\* The event log over the life of a session.
SpecLog == Init /\ [][BpLife \/ LogNext]_vars

\* The watch tools on a session launched once.
SpecWatch == Init /\ [][BpLife \/ WatchNext]_vars

\* Evaluate-all with no concurrent change of the watches.
SpecQuiet == Init /\ [][BpLife \/ QuietNext]_vars

\* Evaluate-all and the frame cursor on a session launched once.
SpecFrame == Init /\ [][BpLife \/ FrameNext]_vars

\* A response that arrived is processed, and the adapter answers every
\* request it did not leave unanswered.
SpecEnd ==
  /\ Init /\ [][BpLife \/ EndNext]_vars
  /\ WF_vars(ConnectDone) /\ WF_vars(ConfigurationDone) /\ WF_vars(LaunchDone)
  /\ WF_vars(ExecDone) /\ WF_vars(EndDone)

\* A session whose adapter may die; every response or failure that arrived
\* is processed.
SpecExit ==
  /\ Init /\ [][BpLife \/ ExitNext]_vars
  /\ WF_vars(ConnectDone) /\ WF_vars(ConfigurationDone) /\ WF_vars(LaunchDone)
  /\ WF_vars(ExecDone)

\* The handshake of connect(); the caller resumes once its promise is
\* resolved and every response that arrived is processed.
SpecConnect ==
  /\ Init /\ [][ConnectNext]_vars
  /\ WF_vars(InitializeResponse) /\ WF_vars(ConnectResume)
  /\ WF_vars(ConfigurationDone) /\ WF_vars(LaunchDone)

\* The execution tools and the thread they name.
SpecThread == Init /\ [][ThreadNext]_vars
SpecReuse == Init /\ [][ReuseNext]_vars
SpecLogging == Init /\ [][LoggingNext]_vars
SpecCatch == Init /\ [][CatchNext]_vars

\* The frame cursor across stops.
SpecCursor == Init /\ [][CursorNext]_vars

\* Stops reported while launch and continue are in progress.
SpecRace == Init /\ [][RaceNext]_vars

\* The breakpoint store and its tools, called one at a time.
SpecBp == Init /\ [][BpLife \/ BpNext]_vars

\* The source-mapped set-breakpoint beside the plain one.
SpecMap == Init /\ [][BpLife \/ MapNext]_vars

\* ----------------------------------------------------------------- claims
StateOf(sid) == sessionInfo[sessions[sid]].state
LinesOf(list) == [i \in 1 .. Len(list) |-> list[i].line]
AllBps == UNION {{arrays[a][i] : i \in 1 .. Len(arrays[a])} : a \in Ids}

\* C1: continue, step-over, step-into and step-out called on a session that
\* is not STOPPED, and pause called on a session that is not RUNNING, throw
\* the state error, send no request, and leave the state of every session
\* and the registry as they were.
C1_StateErrorNoTraffic ==
  [][\A sid \in SessionIds : sessions[sid] # 0 =>
       \A op \in ExecOps :
         StateOf(sid) # (IF op = "pause" THEN RUNNING ELSE STOPPED) =>
           \A tid \in ArgThreadIds :
             Exec(op, sid, tid)
             => /\ last' = "StateError"
                /\ tasks' = tasks
                /\ adapter' = adapter
                /\ sessionInfo' = sessionInfo
                /\ sessions' = sessions]_vars

\* A step-type call was just refused on a registered RUNNING session.
C1_Witness ==
  /\ last = "StateError"
  /\ \E sid \in SessionIds : sessions[sid] # 0 /\ StateOf(sid) = RUNNING

\* C2: launch and attach with a session id whose registry entry is in a
\* state other than TERMINATED and ERROR are rejected and leave the
\* registry and every session object untouched; over an entry that is
\* TERMINATED or ERROR the call registers a new session object, CONNECTING,
\* under the id.
C2_DuplicateIds ==
  [][\A op \in StartOps, sid \in SessionIds, stop \in BOOLEAN :
       (sessions[sid] # 0 /\ Launch(op, sid, stop))
       => IF StateOf(sid) \notin {TERMINATED, ERROR}
          THEN /\ last' = "AlreadyExists"
               /\ sessions' = sessions
               /\ sessionInfo' = sessionInfo
               /\ tasks' = tasks
          ELSE /\ last' = "pending"
               /\ sessions'[sid] \notin {0, sessions[sid]}
               /\ sessionInfo'[sessions'[sid]].state = CONNECTING
               /\ sessionInfo'[sessions[sid]] = sessionInfo[sessions[sid]]]_vars

\* A launch was just rejected for an id that a live session holds.
C2_Witness ==
  /\ last = "AlreadyExists"
  /\ \E sid \in SessionIds :
       sessions[sid] # 0 /\ StateOf(sid) \notin {TERMINATED, ERROR}

\* C3: a set-breakpoints call that reaches the adapter leaves for its source
\* exactly the lines of the call, in order, whatever the source held before,
\* and leaves the list of every other source as it was; its response changes
\* no line of any source.
C3_ReplaceAll ==
  [][/\ \A sid \in SessionIds, src \in Sources, lines \in LineSeqs, conds \in CondArgs :
          (last' = "pending" /\ SetBreakpoints(sid, src, lines, conds))
          => /\ LinesOf(StoreList(sessions[sid], src))' = lines
             /\ \A other \in Sources \ {src} :
                  StoreList(sessions[sid], other)' = StoreList(sessions[sid], other)
     /\ \A t \in Pending : \A resp \in [1 .. t.n -> BOOLEAN] :
          (t.op = "setBreakpoints" /\ SetDoneOf(t, TRUE, resp))
          => \A o \in Objs, src \in Sources :
               LinesOf(StoreList(o, src))' = LinesOf(StoreList(o, src))]_vars

\* Two set-breakpoints calls on a.js have completed: the source holds the
\* lines 20, 10 of the second call, under the ids 2 and 3, and nothing of
\* the first call.
C3_Witness ==
  /\ tasks = EmptyBag
  /\ last = "ok"
  /\ breakpointIdCounter = 3
  /\ LinesOf(StoreList(1, "a.js")) = <<20, 10>>
  /\ StoreList(1, "a.js")[1].id = 2
  /\ StoreList(1, "a.ts") = <<>>
  /\ adapter[1].lastSent["a.ts"] = <<>>

\* C4: once every breakpoint call has completed, the (line, condition) list
\* stored for each source is the list of the latest setBreakpoints request
\* the adapter received for that source.
C4_StoreMatchesAdapter ==
  tasks = EmptyBag =>
    \A o \in Objs, src \in Sources : Wire(StoreList(o, src)) = adapter[o].lastSent[src]

\* C5: breakpoint ids are never issued twice: the counter never decreases,
\* every id in use is at most the counter, no two breakpoints share an id,
\* and a breakpoint that appears has an id above the counter before.
C5_IdsNeverReused ==
  /\ [](/\ \A bp \in AllBps : bp.id <= breakpointIdCounter
        /\ \A a, b \in Ids : \A i \in 1 .. Len(arrays[a]), j \in 1 .. Len(arrays[b]) :
             arrays[a][i].id = arrays[b][j].id => (a = b /\ i = j))
  /\ [][/\ breakpointIdCounter' >= breakpointIdCounter
        /\ \A bp \in AllBps' :
             (bp.id \notin {x.id : x \in AllBps}) => bp.id > breakpointIdCounter]_vars

\* Three ids were issued and the breakpoints 1 and 2 are gone: the only
\* breakpoint left carries the id 3.
C5_Witness ==
  /\ breakpointIdCounter = 3
  /\ {bp.id : bp \in AllBps} = {3}

\* C6: when the response of set-breakpoints or set-breakpoint is processed,
\* the verified flag of the i-th stored breakpoint of the source becomes the
\* verified value at index i of the response.
C6_VerifiedFollowsResponse ==
  [][\A t \in Pending : \A resp \in [1 .. t.n -> BOOLEAN] :
       SetDoneOf(t, TRUE, resp)
       => \A i \in 1 .. Len(StoreList(t.obj, t.src)) :
            i <= Len(resp) => StoreList(t.obj, t.src)'[i].verified = resp[i]]_vars

\* C7: a stopped event that names the id of a stored breakpoint raises the
\* hit count of that breakpoint by one.
C7_HitCountIncrements ==
  [][\A o \in Objs, tid \in EventThreadIds, hits \in HitSets :
       StoppedEvent(o, tid, hits)
       => \A s \in Sources : \A i \in 1 .. Len(StoreList(o, s)) :
            StoreList(o, s)[i].id \in hits
            => StoreList(o, s)'[i].hitCount = StoreList(o, s)[i].hitCount + 1]_vars

\* C8: a stopped event with thread id t makes the session STOPPED and t its
\* current thread, for every thread id.
C8_StoppedSetsCursor ==
  [][\A o \in Objs, tid \in EventThreadIds \ {Null}, hits \in HitSets :
       StoppedEvent(o, tid, hits)
       => /\ sessionInfo'[o].state = STOPPED
          /\ currentThreadId'[o] = tid]_vars

\* C9: a session that is TERMINATED never becomes RUNNING, STOPPED or
\* CONNECTED again.
C9_TerminatedIsTerminal ==
  [][\A o \in Objs :
       sessionInfo[o].state = TERMINATED
       => sessionInfo'[o].state \notin {RUNNING, STOPPED, CONNECTED}]_vars

\* C10: a terminated event and an exited event each move a session that is
\* neither TERMINATED nor ERROR to TERMINATED.
C10_TerminatedOrExited ==
  [][\A o \in Objs :
       (/\ TerminatedEvent(o) \/ ExitedEvent(o)
        /\ sessionInfo[o].state \notin {TERMINATED, ERROR})
       => sessionInfo'[o].state = TERMINATED]_vars

\* C11: when a launch or attach call returns successfully the session it
\* started is STOPPED if stopOnEntry was asked for and RUNNING otherwise
\* (attach: RUNNING); it is not left CONNECTED.
C11_StateAfterLaunch ==
  [][\A t \in Pending :
       LaunchDoneOf(t, TRUE)
       => sessionInfo'[t.obj].state =
            (IF t.op = "launch" /\ t.stop THEN STOPPED ELSE RUNNING)]_vars

\* C12: when a terminate or disconnect call returns successfully, the session
\* it was called on is TERMINATED and its id is not in the registry.
C12_EndedAndRemoved ==
  [][\A t \in Pending :
       EndDoneOf(t, TRUE)
       => sessionInfo'[t.obj].state = TERMINATED /\ sessions'[t.sid] = 0]_vars

\* C13: a disconnect call always completes, also when the adapter never
\* answers the disconnect request: no disconnect stays suspended forever.
DisconnectPending == \E t \in Pending : t.op = "disconnect"
C13_DisconnectCompletes == DisconnectPending ~> ~DisconnectPending

\* C14: a request answered with a failure over an open transport fails its
\* caller only: the state of every session and the registry stay as they
\* were, whichever tool sent the request.
C14_RequestErrorIsLocal ==
  [][\A t \in Pending :
       (/\ CanSucceed(t.obj)
        /\ LaunchDoneOf(t, FALSE) \/ ExecDoneOf(t, FALSE) \/ EndDoneOf(t, FALSE))
       => sessionInfo' = sessionInfo /\ sessions' = sessions]_vars

\* C15: a tool called with a session id that is not in the registry throws
\* the not-found error, sends no request, registers nothing and changes no
\* session.
C15_UnknownIdNotFound ==
  [][\A sid \in SessionIds : sessions[sid] = 0 =>
       ((\/ \E op \in ExecOps, tid \in ArgThreadIds : Exec(op, sid, tid)
         \/ GetSessionInfo(sid))
        => /\ last' = "NotFound"
           /\ tasks' = tasks /\ adapter' = adapter
           /\ sessionInfo' = sessionInfo /\ sessions' = sessions)]_vars

\* C16: every stored watch has at most one of value and error: a watch never
\* evaluated has neither and no timestamp, an evaluated one has exactly one
\* of them and a timestamp; an evaluation that succeeds leaves the value
\* and no error, one that fails leaves the error and no value.
StoredWatches ==
  UNION {{sessionInfo[o].watches[i] : i \in 1 .. Len(sessionInfo[o].watches)} :
           o \in Objs}
WatchShape(w) ==
  IF w.lastEvaluated THEN (w.value # Undefined) # (w.error # Undefined)
  ELSE w.value = Undefined /\ w.error = Undefined
StoredAfter(t) == getWatchById(sessionInfo'[t.obj].watches, t.w.id)
C16_ValueOrError ==
  /\ [](\A w \in StoredWatches : WatchShape(w))
  /\ [][\A t \in Pending : \A ok \in BOOLEAN :
          (EvalDoneOf(t, ok) \/ EvalAllStepOf(t, ok))
          => /\ StoredAfter(t).lastEvaluated
             /\ (StoredAfter(t).value # Undefined) = ok
             /\ (StoredAfter(t).error # Undefined) = ~ok]_vars
\* A watch that failed to evaluate is stored beside one that has a value.
C16_Witness ==
  \E v, w \in StoredWatches :
    /\ v.value # Undefined /\ v.lastEvaluated
    /\ w.error # Undefined /\ w.lastEvaluated

\* C17: the value a stored watch carries is the result of its current
\* expression: an evaluation sent for the expression the watch had before an
\* update never leaves its result on the watch with the new expression.
C17_ValueOfCurrentExpression ==
  \A w \in StoredWatches :
    w.value # Undefined => w.value = ResultOf(w.expression)

\* C18: when add-watch or update-watch evaluates at once on a stopped
\* session, the text it returns carries the value (or the error) of the
\* evaluation, the one then stored under the watch id.
C18_ReturnsEvaluated ==
  [][\A t \in Pending : \A ok \in BOOLEAN :
       EvalDoneOf(t, ok) => last' = Shown(StoredAfter(t))]_vars

\* C19: with no other call changing the watches meanwhile, an evaluate-all
\* returns normally after one evaluate request per watch of the Map, in the
\* order of the Map; each watch whose request failed holds the error, each
\* other one its value; a failure never ends the loop.  On an empty Map the
\* tool returns without sending a request.
RequestedIds(reqs) == [i \in 1 .. Len(reqs) |-> reqs[i].id]
C19_EvaluateAllNeverAborts ==
  /\ [][\A t \in Pending : \A ok \in BOOLEAN :
          EvalAllStepOf(t, ok)
          => /\ (StoredAfter(t).error # Undefined) = ~ok
             /\ (StoredAfter(t).value # Undefined) = ok
             /\ last' \in {"evaluated", "next watch"}
             /\ last' = "evaluated" =>
                  /\ RequestedIds(t.reqs) = WatchKeys(sessionInfo'[t.obj].watches)
                  /\ \A i \in 1 .. Len(sessionInfo'[t.obj].watches) :
                       sessionInfo'[t.obj].watches[i].lastEvaluated]_vars
  /\ [][\A sid \in SessionIds, f \in ArgFrameIds :
          (/\ validateAndGet(sid, {STOPPED}) = "ok"
           /\ sessionInfo[sessions[sid]].watches = <<>>
           /\ EvaluateWatches(sid, f))
          => tasks' = tasks /\ last' = "noWatches"]_vars
\* An evaluate-all has returned, leaving the error of a failed watch beside
\* the value of a later one.
C19_Witness ==
  /\ last = "evaluated"
  /\ \E o \in Objs :
       /\ Len(sessionInfo[o].watches) = 2
       /\ sessionInfo[o].watches[1].error # Undefined
       /\ sessionInfo[o].watches[2].value # Undefined

\* C20: the evaluate requests one evaluate-all call sends all name the same
\* stack frame, whatever happens to the frame cursor of the session while
\* the call is suspended.
C20_OneFrame ==
  \A t \in Pending :
    t.op = "evaluateWatches" =>
      \A i, j \in 1 .. Len(t.reqs) : t.reqs[i].frame = t.reqs[j].frame

\* C21: the event log of a session only grows at its end: a logged event
\* becomes the last entry and the entries before it stay as they were; when
\* the write to the log file fails the event is still in the log and the
\* call returns normally.
IsPrefix(a, b) == Len(a) <= Len(b) /\ SubSeq(b, 1, Len(a)) = a
C21_LogAppendOnly ==
  /\ [][\A o \in Objs : IsPrefix(sessionInfo[o].events, sessionInfo'[o].events)]_vars
  /\ [][\A sid \in SessionIds, type \in EventTypes, file \in LogFileOutcomes :
          (sessions[sid] # 0 /\ LogDebugEvent(sid, type, file))
          => /\ sessionInfo'[sessions[sid]].events
                  = Append(sessionInfo[sessions[sid]].events, type)
             /\ last' \in {"logged", "logFileError"}]_vars
\* An event was logged after another one although its file write failed.
C21_Witness ==
  /\ last = "logFileError"
  /\ \E o \in Objs : sessionInfo[o].events = <<"stopped", "output">>

\* C22: the cleanup sweep removes the registry entries of the sessions that
\* are TERMINATED, in ERROR or idle too long, whether or not their
\* disconnect succeeds, and of no other session: a session the sweep did not
\* judge keeps its entry, and no session changes state.
C22_CleanupRemovesOnlyJudged ==
  /\ [][\A sid \in SessionIds, stale \in BOOLEAN :
          Cleanup(sid, stale)
          => /\ sessionInfo' = sessionInfo
             /\ (sessions[sid] # 0 /\ ~ToClean(sessions[sid], stale))
                  => sessions' = sessions]_vars
  /\ [][\A t \in Pending : \A ok \in BOOLEAN :
          CleanupDoneOf(t, ok)
          => /\ last' = "cleaned"
             /\ sessionInfo' = sessionInfo
             /\ sessions[t.sid] = t.obj => sessions'[t.sid] = 0
             /\ sessions[t.sid] # t.obj => sessions'[t.sid] = sessions[t.sid]]_vars

\* C23: sessions do not interfere: configuring source maps on one session
\* changes neither the state and stores of another registered session nor
\* the path a later source-mapped breakpoint of that other session is sent
\* for.
DebugPaths == [src \in Sources |-> resolveDebugPath(src, TRUE)]
C23_NoInterference ==
  [][\A a, b \in TwoIds :
       (/\ a # b /\ sessions[a] # 0 /\ sessions[b] # 0
        /\ \E e \in BOOLEAN : EnableSourceMaps(a, e))
       => /\ sessionInfo'[sessions[b]] = sessionInfo[sessions[b]]
          /\ adapter'[sessions[b]] = adapter[sessions[b]]
          /\ DebugPaths' = DebugPaths]_vars

\* C24: transformStackTrace returns as many frames as it was given, in the
\* same order; a frame is returned as it was when source maps are disabled,
\* when it has no source path or when no mapping is found for it, and a
\* frame that comes back changed was mapped: it carries the mapped source
\* path and line.
MappingFound(frame, raw) == raw.source # frame.path \/ raw.line # frame.line
C24_UnmappedFramesUnchanged ==
  /\ Len(stackOut) = Len(stackIn.frames)
  /\ \A i \in 1 .. Len(stackOut) :
       LET f == stackIn.frames[i]
           g == stackOut[i]
       IN /\ g.id = f.id
          /\ (~stackIn.enabled \/ f.path = "" \/ ~MappingFound(f, stackIn.raw))
               => g = f
          /\ g # f => /\ MappingFound(f, stackIn.raw)
                      /\ g.path = stackIn.raw.source
                      /\ g.line = stackIn.raw.line
\* A trace of two frames came back with the first frame mapped to a.ts and
\* the second, which has no source path, as it was.
C24_Witness ==
  /\ Len(stackOut) = 2
  /\ stackOut[1].path = "a.ts" /\ stackIn.frames[1].path = "a.js"
  /\ stackOut[2] = stackIn.frames[2] /\ stackOut[2].path = ""

\* C25: cache entries never expire: once hasSourceMap has answered for a
\* file (map found, or no map) every later hasSourceMap for that file gives
\* the same answer, and once getSourceContent has returned the lines of a
\* file every later call returns those lines, whatever happens to the files
\* meanwhile, until clearCache; the call after clearCache reads the files
\* again.
C25_CacheNeverExpires ==
  [][\A f \in Files :
       /\ (HasSourceMap(f) /\ returned[f].has # NoEntry)
            => returned'[f].has = returned[f].has
       /\ (GetSourceContent(f) /\ returned[f].content \notin {NoEntry, "null"})
            => returned'[f].content = returned[f].content
       /\ (HasSourceMap(f) /\ returned[f].has = NoEntry)
            => returned'[f].has = (IF FoundMap(files[f]) # "null" THEN "true" ELSE "false")
       /\ (GetSourceContent(f) /\ returned[f].content = NoEntry)
            => returned'[f].content = ContentLines(files[f])]_vars
\* hasSourceMap has answered "no map" and getSourceContent the lines of the
\* plain file, and both still hold although a map file now exists and the
\* source changed.
C25_Witness ==
  \E f \in Files :
    /\ returned[f].has = "false" /\ returned[f].content = "plain"
    /\ files[f].mapFile = "m1" /\ files[f].source = "inline"
    /\ last \in {"false", "plain"}

\* C26: the framer is chunking-invariant: however the stream of well-formed
\* frames (body length counted in UTF-8 bytes) is cut into reads, the
\* messages handed on are the framed messages in order: always a prefix of
\* them, all of them once every frame has been read, with only the bytes of
\* an incomplete frame left in the buffer.
C26_ChunkingInvariant ==
  /\ IsPrefix(emitted, sent)
  /\ wire = <<>> => emitted = sent /\ buffer = <<>>

\* C27: responses are correlated to requests by sequence number alone: a
\* response whose request_seq names a pending request completes that request
\* with the body it carries, whatever the order of arrival, and leaves every
\* other request as it was; a response whose request_seq names no pending
\* request changes nothing.
C27_CorrelatedBySeq ==
  [][\A response \in Responses :
       OnResponse(response) =>
         LET n == response.request_seq IN
         IF n \in pendingRequests
         THEN /\ completion'[n].body = response.body
              /\ completion'[n].how # "pending"
              /\ n \notin pendingRequests'
              /\ \A m \in Seqs \ {n} :
                   /\ completion'[m] = completion[m]
                   /\ (m \in pendingRequests') = (m \in pendingRequests)
         ELSE /\ completion' = completion
              /\ pendingRequests' = pendingRequests]_vars
\* Requests 1 and 2 are in flight together and the response to 2 has arrived
\* first: 2 is completed with the body of its response, 1 is still pending.
C27_Witness ==
  /\ completion[2] = [how |-> "resolved", body |-> "b2"]
  /\ completion[1] = NotCompleted
  /\ 1 \in pendingRequests
  /\ last = "resolved"

\* C28: when the adapter process exits or its pipe closes without a
\* terminated event, every request pending on the session is failed and the
\* recorded state of the session eventually becomes ERROR: it does not stay
\* RUNNING or STOPPED forever.
C28_ExitDrivesToError ==
  \A o \in Objs :
    (adapter[o].transport = "exited" /\ sessionInfo[o].state \in {RUNNING, STOPPED})
      ~> (/\ sessionInfo[o].state = ERROR
          /\ \A t \in Pending : t.obj # o)

\* C29: connect completes and the session becomes CONNECTED whenever the
\* adapter has answered the initialize request and emitted its initialized
\* event, also when the event arrives right after the response, before the
\* caller has resumed: the session does not stay CONNECTING.
C29_ConnectCompletes ==
  \A o \in Objs :
    (o \in initializedEmitted) ~> (sessionInfo[o].state # CONNECTING)

\* C30: a stop is never lost to a racing tool call: when the stopped event of
\* the adapter was processed while a launch or a continue was awaiting its
\* response, the recorded state is STOPPED, not RUNNING, once that operation
\* has completed.  (A launch without stopOnEntry awaits in CONNECTED, so
\* STOPPED at its completion means a stop was processed meanwhile; for a
\* continue the stop is the step taken last.)
C30_StopNotLost ==
  [][\A t \in Pending :
       /\ (LaunchDoneOf(t, TRUE) /\ sessionInfo[t.obj].state = STOPPED)
            => sessionInfo'[t.obj].state = STOPPED
       /\ (ExecDoneOf(t, TRUE) /\ t.op = "continue" /\ last = "event stopped")
            => sessionInfo'[t.obj].state = STOPPED]_vars

\* C31: the recorded state of a session becomes STOPPED only as the effect of
\* a stopped event of the adapter; the response to a pause request does not
\* by itself mark the session STOPPED.
C31_StoppedOnlyByEvent ==
  [][\A o \in Objs :
       (sessionInfo[o].state # STOPPED /\ sessionInfo'[o].state = STOPPED)
       => \E tid \in EventThreadIds, hits \in HitSets : StoppedEvent(o, tid, hits)]_vars

\* C32: setting the breakpoints of a source to the empty list of lines
\* succeeds: the call does not throw, no breakpoint is stored for the source
\* afterwards, and the adapter has been sent the empty list for it.
C32_EmptyListClears ==
  [][\A sid \in SessionIds, src \in Sources :
       (/\ validateAndGet(sid, BpStates) = "ok"
        /\ SetBreakpoints(sid, src, <<>>, <<>>))
       => /\ last' # "TypeError"
          /\ StoreList(sessions[sid], src)' = <<>>
          /\ adapter'[sessions[sid]].lastSent[src] = <<>>]_vars

\* C33: when the setBreakpoints request of a breakpoint operation fails, the
\* breakpoint store of the source is the same after the failed operation as
\* before it.  Breakpoint calls run one at a time, so the store before a
\* set-breakpoint call is the list it sent without its last element, and the
\* store before a set-breakpoints call whose list holds every id issued so
\* far is empty.
AllFalse(n) == [i \in 1 .. n |-> FALSE]
C33_FailureKeepsStore ==
  [][\A t \in Pending :
       SetDoneOf(t, FALSE, AllFalse(t.n)) =>
         /\ t.op = "setBreakpoint"
              => Len(StoreList(t.obj, t.src))' = t.n - 1
         /\ (t.op = "setBreakpoints" /\ breakpointIdCounter = t.n)
              => StoreList(t.obj, t.src)' = <<>>]_vars

\* C34: the breakpoint store of a session holds at most one breakpoint for
\* each source and line, so that removing the breakpoint at a line leaves
\* none at that line, in the store and in the list re-sent to the adapter.
C34_OnePerLine ==
  \A o \in Objs, src \in Sources :
    \A i, j \in 1 .. Len(StoreList(o, src)) :
      StoreList(o, src)[i].line = StoreList(o, src)[j].line => i = j

\* C35: continue, step-over, step-in, step-out and pause called without a
\* thread id on a session in the state the tool requires but with no current
\* thread recorded fail with "No active thread", send no request and leave
\* the state of the session as it was.
C35_NoActiveThread ==
  [][\A sid \in SessionIds, op \in ExecOps :
       (/\ validateAndGet(sid, Required(op)) = "ok"
        /\ currentThreadId[sessions[sid]] = Null
        /\ Exec(op, sid, Null))
       => /\ last' = "NoActiveThread"
          /\ tasks' = tasks
          /\ adapter' = adapter
          /\ sessionInfo' = sessionInfo]_vars
\* A session launched without stop-on-entry that never stopped is RUNNING,
\* and a call without thread id has just failed on it.
C35_Witness ==
  \E sid \in SessionIds :
    /\ sessions[sid] # 0
    /\ sessionInfo[sessions[sid]].state = RUNNING
    /\ currentThreadId[sessions[sid]] = Null
    /\ last = "NoActiveThread"

\* C36: while a session is STOPPED, an operation that relies on the default
\* frame uses the top frame of the current stop: the frame evaluate sends
\* without a frame id is never a frame id recorded during an earlier stop,
\* also before the stack trace asked for after the stop has been answered.
C36_CursorOfCurrentStop ==
  \A o \in Objs :
    (sessionInfo[o].state = STOPPED /\ Truthy(FrameSent(o, Null)))
    => FrameSent(o, Null) = stopTop[o]

\* C37: a watch id that has been issued and is absent from the watches of a
\* session (removed or cleared) stays absent: no evaluation that was in
\* flight when the watch was removed puts it back when its result arrives.
C37_RemovedStaysRemoved ==
  [][\A o \in Objs, id \in WatchIds :
       (id <= watchIdCounter /\ ~Has(sessionInfo[o].watches, id))
       => ~Has(sessionInfo'[o].watches, id)]_vars

\* C38: when a session id is used again after the earlier session under it
\* ended, nothing that belongs to the earlier session touches the new one:
\* a tool call of the earlier session that completes late and an event of
\* the earlier session's adapter that arrives late leave the state and the
\* event log of the session now registered under the id as they were.
C38_OldSessionLeavesNewAlone ==
  [][/\ \A t \in Pending, ok \in BOOLEAN :
          (/\ sessions[t.sid] # 0
           /\ sessions[t.sid] # t.obj
           /\ ExecDoneOf(t, ok))
          => sessionInfo'[sessions[t.sid]] = sessionInfo[sessions[t.sid]]
     /\ \A o \in Objs, sid \in SessionIds, file \in LogFileOutcomes :
          (/\ sessions[sid] # 0
           /\ sessions[sid] # o
           /\ OutputEventLogged(o, sid, file))
          => sessionInfo'[sessions[sid]] = sessionInfo[sessions[sid]]]_vars

\* C39: the failure path of launch and attach removes from the registry
\* only the session its own call registered: when the id holds another
\* session at the moment the failing call has logged its error, that
\* session is still under the id after the failing call has returned.
C39_CatchRemovesOwnOnly ==
  [][\A t \in Pending :
       (sessions[t.sid] # t.obj /\ LaunchCatchDoneOf(t))
       => sessions'[t.sid] = sessions[t.sid]]_vars

\* C40: a live session registered under an id is never replaced in the
\* registry by another launch or attach: of two calls with the same id, in
\* whatever order their steps run, the second to register is rejected.
C40_LiveNeverOverwritten ==
  [][\A sid \in SessionIds :
       (sessions[sid] # 0 /\ sessionInfo[sessions[sid]].state \notin {TERMINATED, ERROR})
       => sessions'[sid] \in {sessions[sid], 0}]_vars

====
